---------------------------- MODULE Spec2Model ----------------------------
(***************************************************************************)
(* A model of Xiv2Pub (package tex2epub): the LaTeX preprocessor           *)
(* (src/tex2epub/preprocessor.py) and the EPUB post-processor              *)
(* (src/tex2epub/postprocessor.py).                                        *)
(*                                                                         *)
(* Texts are sequences of tokens.  A token is a string; the text that a    *)
(* sequence stands for is the concatenation of its tokens.  A command      *)
(* name ("\\vspace"), a brace, a bracket, a white-space character and a    *)
(* run of ordinary characters ("1cm") are one token each, so a regular     *)
(* expression of the source is matched token by token.                     *)
(***************************************************************************)
EXTENDS Integers, Sequences, FiniteSets, TLC

VARIABLES
  \* ---- preprocess(): include resolution, rewrite stages, rebuild
  fs,        \* the source tree: path -> text of the file
  stack,     \* call stack of _resolve_includes (one frame per call)
  ipc,       \* position of preprocess(): "resolve", "resolved", the name of
             \* the stage to run next, "done", "error"
  resolved,  \* [text, org]: what _resolve_includes returned to preprocess()
  deepest,   \* history: the largest depth argument of any call so far
  pass,      \* which run of preprocess() this is (1 or 2)
  doc,       \* the local content of preprocess() behind include resolution:
             \* at "done", the text preprocess() returned in this pass
  meta,      \* the metadata preprocess() returned in this pass
  first,     \* history: the text returned by pass 1
  \* ---- one rewrite stage applied to one buffer
  stage,     \* the stage chosen
  buf,       \* the stage's input (history once the stage has run)
  res,       \* the stage's result
  spc,       \* "ready", "returned", "raised"
  \* ---- _link_citations()
  frags,     \* text/*.xhtml in sorted order: index -> text of the fragment
  frags0,    \* history: the fragments before the first run
  prev,      \* history: the fragments when the current run started
  runs,      \* completed or aborted calls of _link_citations
  cpc,       \* "idle", "scan", "raised"
  bib,       \* [chapter, ids]: bib_chapter (0 = None) and bib_ids
  xf,        \* index of the fragment being scanned
  content,   \* its text as read
  pos,       \* the scan cursor
  result,    \* the pieces emitted so far, joined
  span_end,  \* the local span_end (0 = not bound yet)
  iters,     \* history: iterations of the scan loop in this run
  \* ---- postprocess_epub()
  ppc,         \* position of postprocess_epub()
  epub,        \* the file at epub_path: NoFile, NotZip or its entries
  fonts_dir,   \* the font files present in fonts_dir
  tmp_dir,     \* the workspace: "none", "present", "deleted"
  unpacked,    \* the files of the workspace: path -> text
  extracted,   \* history: the workspace as extracted
  content_dir, \* the local content_dir (a path)
  copied,      \* history: the fonts copied at line 147
  err,         \* the exception on its way out of the try block ("" = none)
  nrun         \* which run of postprocess_epub() on this archive this is

prepVars == <<fs, stack, ipc, resolved, deepest, pass, doc, meta, first>>
stageVars == <<stage, buf, res, spc>>
citeVars == <<frags, frags0, prev, runs, cpc, bib, xf, content, pos, result,
              span_end, iters>>
patchVars == <<ppc, epub, fonts_dir, tmp_dir, unpacked, extracted, content_dir,
               copied, err, nrun>>
vars == <<prepVars, stageVars, citeVars, patchVars>>

-----------------------------------------------------------------------------
(* Sequences of tokens *)

\* the token at index i, "" beyond either end of the text
At(s, i) == IF i \in 1..Len(s) THEN s[i] ELSE ""

\* s[i-1:j] of Python, for i >= 1: an end beyond the text is the end of the text
Slice(s, i, j) ==
  IF j > Len(s) THEN (IF i > Len(s) THEN <<>> ELSE SubSeq(s, i, Len(s)))
  ELSE IF i > j THEN <<>> ELSE SubSeq(s, i, j)

From(s, i) == Slice(s, i, Len(s))

Least(S) == CHOOSE x \in S : \A y \in S : x <= y

\* str.find / re.search for a single token: the least index >= i holding a
\* token of T, 0 when there is none
FindTok(s, i, T) ==
  LET found == {j \in i..Len(s) : s[j] \in T}
  IN IF found = {} THEN 0 ELSE Least(found)

\* the least index >= i whose token is not in T (Len(s) + 1 at the end)
SkipToks(s, i, T) ==
  LET found == {j \in i..Len(s) : s[j] \notin T}
  IN IF found = {} THEN (IF i > Len(s) THEN i ELSE Len(s) + 1) ELSE Least(found)

RECURSIVE Flatten(_)
Flatten(ss) == IF ss = <<>> THEN <<>> ELSE Head(ss) \o Flatten(Tail(ss))

RECURSIVE JoinToks(_)
JoinToks(s) == IF s = <<>> THEN "" ELSE Head(s) \o JoinToks(Tail(s))

Count(s, T) == Cardinality({i \in DOMAIN s : s[i] \in T})

Fill(n, x) == [i \in 1..n |-> x]

\* all sequences of at most n members of S, joined
RECURSIVE Texts(_, _)
Texts(S, n) ==
  IF n = 0 THEN {<<>>}
  ELSE LET shorter == Texts(S, n - 1)
       IN shorter \cup {t \o x : t \in shorter, x \in S}

\* the tokens \\s matches
WS == {" ", "\n", "\t", "\r", "<VT>"}

\* re.sub(pattern, repl, text): the leftmost match is replaced, the scan goes
\* on behind it and never looks into a replacement.  M(s, i) is the index
\* behind the match that starts at i (0 when none starts there), R(s, i, e)
\* is the replacement of the match s[i..e-1].
\* The scan is computed by halves: scan(t, a, b) is the output of the scan
\* from position a up to its first position pos >= b.
SubAll(text, M(_, _), R(_, _, _)) ==
  LET RECURSIVE scan(_, _, _)
      scan(t, a, b) ==
        IF b - a <= 1
        THEN LET e == M(t, a)
             IN IF e > a THEN [out |-> R(t, a, e), pos |-> e]
                ELSE [out |-> <<t[a]>>, pos |-> a + 1]
        ELSE LET left == scan(t, a, (a + b) \div 2)
             IN IF left.pos >= b THEN left
                ELSE LET right == scan(t, left.pos, b)
                     IN [out |-> left.out \o right.out, pos |-> right.pos]
  IN CHOOSE out \in {IF t = <<>> THEN <<>> ELSE scan(t, 1, Len(t) + 1).out :
                     t \in {text}} : TRUE

Delete(s, i, e) == <<>>

-----------------------------------------------------------------------------
(* _resolve_includes: preprocessor.py 42-59 *)

\* the recursion bound of line 44
DepthLimit == 10

\* bound: items (a directive or a character) in the main file
MaxItems == 1

Root == "."

MainFile == "main.tex"

\* the names a directive of the model may carry, and those among them that
\* already end in ".tex"
TexNames == {"b.tex"}

EndsWithTex(name) == name \in TexNames

\* work_dir / filename
JoinPath(dir, filename) == IF dir = Root THEN filename ELSE dir \o "/" \o filename

Dirs == {Root, "sub", "sub/sub"}

BaseNames == {"main.tex", "a.tex", "b.tex"}

\* path.parent, for the paths of the model
Parent(path) ==
  IF path \in {JoinPath("sub", b) : b \in BaseNames} THEN "sub"
  ELSE IF path \in {JoinPath("sub/sub", b) : b \in BaseNames} THEN "sub/sub"
  ELSE Root

Exists(tree, path) == path \in DOMAIN tree

\* the match of \\input\{([^}]+)\} or \\include\{([^}]+)\} that starts at i:
\* the index behind its closing brace, 0 when there is no match
DirectiveEnd(s, i, cmd) ==
  IF At(s, i) = cmd /\ At(s, i + 1) = "{" /\ At(s, i + 2) \notin {"}", ""}
  THEN LET j == FindTok(s, i + 2, {"}"}) IN IF j = 0 THEN 0 ELSE j + 1
  ELSE 0

\* the first match at or behind index from, 0 when there is none
NextDirective(s, from, cmd) ==
  LET found == {i \in from..Len(s) : DirectiveEnd(s, i, cmd) > 0}
  IN IF found = {} THEN 0 ELSE Least(found)

\* m.group(1), with ".tex" appended when it is not there (lines 48-50)
TargetName(s, i, e) ==
  LET filename == JoinToks(Slice(s, i + 2, e - 2))
  IN IF EndsWithTex(filename) THEN filename ELSE filename \o ".tex"

\* line 44: the guard of the early return
ExceedsDepthNoCheck(depth) == FALSE

ExceedsDepth(depth) == depth > DepthLimit

PhaseCmd(phase) == IF phase = "input" THEN "\\input" ELSE "\\include"

\* a call _resolve_includes(content, work_dir, depth); org gives, token by
\* token, the directory of the file the token was read from
Frame(text, org, dir, depth) ==
  [content |-> text, org |-> org, dir |-> dir, depth |-> depth,
   phase |-> "input", pos |-> 1, out |-> <<>>, oorg |-> <<>>]

Top == stack[Len(stack)]

SetTop(f) == [stack EXCEPT ![Len(stack)] = f]

\* the call on top returns text: to its caller's re.sub, or to preprocess()
Return(text, org) ==
  IF Len(stack) = 1
  THEN /\ stack' = <<>>
       /\ resolved' = [text |-> text, org |-> org]
       /\ ipc' = "resolved"
  ELSE LET caller == stack[Len(stack) - 1]
       IN /\ stack' = Slice(stack, 1, Len(stack) - 2) \o
                        <<[caller EXCEPT !.out = @ \o text, !.oorg = @ \o org]>>
          /\ UNCHANGED <<resolved, ipc>>

\* The actions bind what they compute with \E over a one-element set: the
\* value is then computed once.

\* lines 44-45: beyond the depth bound the text is returned as it is
IncBail ==
  /\ ipc = "resolve" /\ stack # <<>>
  /\ \E f \in {Top} :
       /\ ExceedsDepth(f.depth)
       /\ Return(f.content, f.org)
  /\ UNCHANGED <<fs, deepest, pass, doc, meta, first, stageVars, patchVars, citeVars>>

\* lines 47-54: a directive whose file exists is replaced by the file's text,
\* resolved one level deeper in the file's own directory
IncCall ==
  /\ ipc = "resolve" /\ stack # <<>>
  /\ \E f \in {Top} :
       /\ ~ExceedsDepth(f.depth)
       /\ \E i \in {NextDirective(f.content, f.pos, PhaseCmd(f.phase))} :
            /\ i > 0
            /\ \E e \in {DirectiveEnd(f.content, i, PhaseCmd(f.phase))} :
               \E path \in {JoinPath(f.dir, TargetName(f.content, i, e))} :
                 /\ Exists(fs, path)
                 /\ \E dir \in {Parent(path)} :
                      stack' =
                        SetTop([f EXCEPT
                                  !.out = @ \o Slice(f.content, f.pos, i - 1),
                                  !.oorg = @ \o Slice(f.org, f.pos, i - 1),
                                  !.pos = e])
                        \o <<Frame(fs[path], Fill(Len(fs[path]), dir), dir,
                                   f.depth + 1)>>
       /\ deepest' = IF f.depth + 1 > deepest THEN f.depth + 1 ELSE deepest
  /\ UNCHANGED <<fs, ipc, resolved, pass, doc, meta, first, stageVars, patchVars, citeVars>>

\* line 55: a directive whose file does not exist is kept as it is
IncKeep ==
  /\ ipc = "resolve" /\ stack # <<>>
  /\ \E f \in {Top} :
       /\ ~ExceedsDepth(f.depth)
       /\ \E i \in {NextDirective(f.content, f.pos, PhaseCmd(f.phase))} :
            /\ i > 0
            /\ \E e \in {DirectiveEnd(f.content, i, PhaseCmd(f.phase))} :
                 /\ ~Exists(fs, JoinPath(f.dir, TargetName(f.content, i, e)))
                 /\ stack' =
                      SetTop([f EXCEPT
                                !.out = @ \o Slice(f.content, f.pos, e - 1),
                                !.oorg = @ \o Slice(f.org, f.pos, e - 1),
                                !.pos = e])
  /\ UNCHANGED <<fs, ipc, resolved, deepest, pass, doc, meta, first, stageVars, patchVars,
               citeVars>>

\* line 57 is done: line 58 scans its result for \include
IncSecondPass ==
  /\ ipc = "resolve" /\ stack # <<>>
  /\ \E f \in {Top} :
       /\ ~ExceedsDepth(f.depth)
       /\ f.phase = "input"
       /\ NextDirective(f.content, f.pos, "\\input") = 0
       /\ stack' = SetTop([f EXCEPT
                             !.content = f.out \o From(f.content, f.pos),
                             !.org = f.oorg \o From(f.org, f.pos),
                             !.phase = "include", !.pos = 1,
                             !.out = <<>>, !.oorg = <<>>])
  /\ UNCHANGED <<fs, ipc, resolved, deepest, pass, doc, meta, first, stageVars, patchVars,
               citeVars>>

\* line 58 is done: line 59 returns
IncReturn ==
  /\ ipc = "resolve" /\ stack # <<>>
  /\ \E f \in {Top} :
       /\ ~ExceedsDepth(f.depth)
       /\ f.phase = "include"
       /\ NextDirective(f.content, f.pos, "\\include") = 0
       /\ Return(f.out \o From(f.content, f.pos), f.oorg \o From(f.org, f.pos))
  /\ UNCHANGED <<fs, deepest, pass, doc, meta, first, stageVars, patchVars, citeVars>>


-----------------------------------------------------------------------------
(* Matching the regular expressions of the source on tokens *)

\* tokens made of letters only: behind a command name they lengthen the name
Letters ==
  {"x", "y", "b", "T", "A", "B", "document", "abstract", "figure", "table",
   "theorem", "article", "amsmath", "amssymb", "graphicx", "hyperref",
   "booktabs", "natbib", "quote", "frametitle", "fig", "width", "if", "then",
   "else", "for", "do", "while", "return", "lpha", "uthor", "nd", "egin",
   "ibliographystyle", "ewcommand", "oindent", "ef", "enewcommand", "itle",
   "extbf", "extwidth", "odo", "space"}

\* tokens that begin with a letter: the lookahead (?![a-zA-Z]) fails in
\* front of them
LetterToks ==
  Letters \cup {"Theorem.", "Require:", "Ensure:", "else if", "end if",
                "end for", "end while", "b.tex", "sub/a"}

\* tokens that begin with a letter, a digit or an underscore: a word
\* boundary (\b) does not separate a command name from them
WordToks == LetterToks \cup {"1", "1cm", "2cm", "0.5"}

\* tokens matched by \w+ as a whole
WholeWords == Letters \cup {"1", "1cm", "2cm"}

\* the tokens \\[a-zA-Z]+ matches as a whole
Commands ==
  {"\\documentclass", "\\usepackage", "\\title", "\\author", "\\and",
   "\\maketitle", "\\begin", "\\end", "\\textbf", "\\emph", "\\ref",
   "\\cref", "\\newcommand", "\\renewcommand", "\\R", "\\S", "\\mathbb",
   "\\alpha", "\\vspace", "\\noindent", "\\small", "\\icmltitle",
   "\\input", "\\include", "\\includegraphics", "\\linewidth",
   "\\textwidth", "\\bibliographystyle", "\\todo", "\\hfill", "\\STATE",
   "\\IF"}

\* \s* from index i: the index of the first token that is not white space
SkipWS(s, i) == SkipToks(s, i, WS)

\* re.search: the least index >= i at which M matches, 0 when there is none
\* (the range is searched by halves, the left half first)
Search(s, i, M(_, _)) ==
  LET RECURSIVE within(_, _)
      within(a, b) ==
        IF a > b THEN 0
        ELSE IF a = b THEN (IF M(s, a) > 0 THEN a ELSE 0)
        ELSE LET left == within(a, (a + b) \div 2)
             IN IF left > 0 THEN left ELSE within((a + b) \div 2 + 1, b)
  IN within(i, Len(s))

\* a literal sequence of tokens at index i
Lit(s, i, lit) ==
  IF i + Len(lit) - 1 <= Len(s) /\ Slice(s, i, i + Len(lit) - 1) = lit
  THEN i + Len(lit) ELSE 0

\* cmd\{name\} at index i, for a name of the set: \begin{figure}
Env(s, i, cmd, names) ==
  IF At(s, i) = cmd /\ At(s, i + 1) = "{" /\ At(s, i + 2) \in names
     /\ At(s, i + 3) = "}"
  THEN i + 4 ELSE 0

EnvToks(cmd, name) == <<cmd, "{", name, "}">>

\* \{[^}]*\} at index i: the index behind the first "}", 0 when no match
BraceArg(s, i) ==
  IF At(s, i) # "{" THEN 0
  ELSE LET j == FindTok(s, i + 1, {"}"}) IN IF j = 0 THEN 0 ELSE j + 1

\* \{[^}]+\} at index i
BraceArgNonEmpty(s, i) ==
  IF At(s, i) = "{" /\ At(s, i + 1) \notin {"}", ""} THEN BraceArg(s, i) ELSE 0

\* \{.*?\} at index i, where nothing or \s* follows: no line break inside
BraceArgOnLine(s, i) ==
  IF At(s, i) # "{" THEN 0
  ELSE LET j == FindTok(s, i + 1, {"}", "\n"})
       IN IF j = 0 \/ s[j] = "\n" THEN 0 ELSE j + 1

\* \{(.+?)\} with DOTALL at index i: at least one character, then the first
\* "}" behind it; the index of that "}", 0 when no match
LazyGroupEnd(s, i) ==
  IF At(s, i) = "{" /\ i + 1 <= Len(s) THEN FindTok(s, i + 2, {"}"}) ELSE 0

\* \[[^\]]*\] at index i
BracketArg(s, i) ==
  IF At(s, i) # "[" THEN 0
  ELSE LET j == FindTok(s, i + 1, {"]"}) IN IF j = 0 THEN 0 ELSE j + 1

\* (\[.*?\])? K at index i: the bracket group ends at the first "]" of the
\* line behind which K matches; without such a group K has to match at i
OptBracketThen(s, i, K(_, _)) ==
  LET RECURSIVE close(_)
      close(j) ==
        IF j > Len(s) \/ s[j] = "\n" THEN 0
        ELSE IF s[j] = "]" /\ K(s, j + 1) > 0 THEN K(s, j + 1)
        ELSE close(j + 1)
      with == IF At(s, i) = "[" THEN close(i + 1) ELSE 0
  IN IF with > 0 THEN with ELSE K(s, i)

\* (\[.*?\])? at index i with nothing behind it
OptBracket(s, i) == OptBracketThen(s, i, LAMBDA t, j : j)

\* \[[\s\S]*?\] K at index i: as above, over line breaks, and not optional
LazyBracketThen(s, i, K(_, _)) ==
  LET RECURSIVE close(_)
      close(j) ==
        IF j > Len(s) THEN 0
        ELSE IF s[j] = "]" /\ K(s, j + 1) > 0 THEN K(s, j + 1)
        ELSE close(j + 1)
  IN IF At(s, i) = "[" THEN close(i + 1) ELSE 0

\* n times \{[^}]*\} from index i
RECURSIVE BraceArgs(_, _, _)
BraceArgs(s, i, n) ==
  IF n = 0 THEN i
  ELSE LET j == BraceArg(s, i) IN IF j = 0 THEN 0 ELSE BraceArgs(s, j, n - 1)

\* (\{[^}]*\})+ from index i
RECURSIVE BraceArgsMany(_, _)
BraceArgsMany(s, i) ==
  LET j == BraceArg(s, i)
  IN IF j = 0 THEN 0
     ELSE IF BraceArg(s, j) > 0 THEN BraceArgsMany(s, j) ELSE j

\* e\s* : the white space behind a match that ends at e (0 stays 0)
ThenWS(s, e) == IF e = 0 THEN 0 ELSE SkipWS(s, e)

\* cmd\{[^}]*\}...\{[^}]*\}  (n arguments) at index i
CmdArgs(s, i, cmd, n) == IF At(s, i) = cmd THEN BraceArgs(s, i + 1, n) ELSE 0

\* cmd\b at index i
CmdBoundary(s, i, cmd) ==
  IF At(s, i) = cmd /\ At(s, i + 1) \notin WordToks THEN i + 1 ELSE 0

\* str.strip() and the pieces of str.split("\n")
RECURSIVE StripRight(_)
StripRight(s) ==
  IF s # <<>> /\ s[Len(s)] \in WS THEN StripRight(Slice(s, 1, Len(s) - 1))
  ELSE s

Strip(s) == StripRight(From(s, SkipWS(s, 1)))

RECURSIVE SplitLines(_)
SplitLines(s) ==
  LET j == FindTok(s, 1, {"\n"})
  IN IF j = 0 THEN <<s>>
     ELSE <<Slice(s, 1, j - 1)>> \o SplitLines(From(s, j + 1))

RECURSIVE JoinLines(_)
JoinLines(lines) ==
  IF Len(lines) = 1 THEN lines[1]
  ELSE lines[1] \o <<"\n">> \o JoinLines(Tail(lines))

Group1(s, i, e) == Slice(s, i + 2, e - 2)

-----------------------------------------------------------------------------
(* _clean_tex: preprocessor.py 445-453 *)

\* lines 447-449: \\textbf\{([^}]*)\} and its like  ->  \1
FormatEnd(s, i, cmd) == CmdArgs(s, i, cmd, 1)

\* line 450: \\[a-zA-Z]+\{([^}]*)\}  ->  \1
AnyCmdEnd(s, i) ==
  IF At(s, i) \in Commands THEN BraceArg(s, SkipToks(s, i + 1, Letters))
  ELSE 0

AnyCmdGroup(s, i, e) == Slice(s, SkipToks(s, i + 1, Letters) + 1, e - 2)

\* line 451: [{}]  ->  ""
BraceEnd(s, i) == IF At(s, i) \in {"{", "}"} THEN i + 1 ELSE 0

\* line 452: \s+  ->  " "
SpacesEnd(s, i) == IF At(s, i) \in WS THEN SkipWS(s, i) ELSE 0

OneSpace(s, i, e) == <<" ">>

CleanTex(text) ==
  LET t1 == SubAll(text, LAMBDA t, i : FormatEnd(t, i, "\\textbf"), Group1)
      t2 == SubAll(t1, LAMBDA t, i : FormatEnd(t, i, "\\textit"), Group1)
      t3 == SubAll(t2, LAMBDA t, i : FormatEnd(t, i, "\\emph"), Group1)
      t4 == SubAll(t3, AnyCmdEnd, AnyCmdGroup)
      t5 == SubAll(t4, BraceEnd, Delete)
      t6 == SubAll(t5, SpacesEnd, OneSpace)
  IN Strip(t6)

-----------------------------------------------------------------------------
(* _extract_metadata: preprocessor.py 62-97 *)

\* lines 68 and 70: cmd\{(.+?)\}; the index of the closing brace
TitleEnd(s, i, cmd) == IF At(s, i) = cmd THEN LazyGroupEnd(s, i + 1) ELSE 0

\* line 69: \\neurips.*?title\{(.+?)\}: a command whose name begins with
\* \neurips, and the first name behind it that ends in "title{"
NeuripsCmds == {"\\neuripstitle", "\\neuripsfinal"}

EndInTitle == {"\\neuripstitle", "\\title", "\\icmltitle"}

RECURSIVE NeuripsBrace(_, _)
NeuripsBrace(s, k) ==
  IF k > Len(s) THEN 0
  ELSE IF s[k] \in EndInTitle /\ LazyGroupEnd(s, k + 1) > 0 THEN k + 1
  ELSE NeuripsBrace(s, k + 1)

NeuripsTitleEnd(s, i) ==
  IF At(s, i) \in NeuripsCmds /\ NeuripsBrace(s, i) > 0
  THEN LazyGroupEnd(s, NeuripsBrace(s, i)) ELSE 0

\* lines 67-75: the first pattern of the list that matches anywhere
TitleGenericFirst(s) ==
  LET i3 == Search(s, 1, LAMBDA t, i : TitleEnd(t, i, "\\title"))
  IN IF i3 > 0 THEN CleanTex(Slice(s, i3 + 2, LazyGroupEnd(s, i3 + 1) - 1))
     ELSE <<>>

Title(s) ==
  LET i1 == Search(s, 1, LAMBDA t, i : TitleEnd(t, i, "\\icmltitle"))
      i2 == Search(s, 1, NeuripsTitleEnd)
      i3 == Search(s, 1, LAMBDA t, i : TitleEnd(t, i, "\\title"))
  IN IF i1 > 0 THEN CleanTex(Slice(s, i1 + 2, LazyGroupEnd(s, i1 + 1) - 1))
     ELSE IF i2 > 0
       THEN CleanTex(Slice(s, NeuripsBrace(s, i2) + 1, NeuripsTitleEnd(s, i2) - 1))
     ELSE IF i3 > 0 THEN CleanTex(Slice(s, i3 + 2, LazyGroupEnd(s, i3 + 1) - 1))
     ELSE <<>>

\* line 79: re.findall(\\icmlauthor\{([^}]+)\})
IcmlAuthorEnd(s, i) ==
  IF At(s, i) = "\\icmlauthor" THEN BraceArgNonEmpty(s, i + 1) ELSE 0

RECURSIVE IcmlAuthors(_, _)
IcmlAuthors(s, i) ==
  LET k == Search(s, i, IcmlAuthorEnd)
  IN IF k = 0 THEN <<>>
     ELSE <<Slice(s, k + 2, IcmlAuthorEnd(s, k) - 2)>>
          \o IcmlAuthors(s, IcmlAuthorEnd(s, k))

\* line 87: re.split(\\and\b, block)
RECURSIVE SplitAnd(_)
SplitAnd(block) ==
  LET k == Search(block, 1, LAMBDA t, i : CmdBoundary(t, i, "\\and"))
  IN IF k = 0 THEN <<block>>
     ELSE <<Slice(block, 1, k - 1)>> \o SplitAnd(From(block, k + 1))

RECURSIVE CleanEach(_)
CleanEach(parts) ==
  IF parts = <<>> THEN <<>>
  ELSE <<CleanTex(Head(parts))>> \o CleanEach(Tail(parts))

NonEmpty(parts) == SelectSeq(parts, LAMBDA a : a # <<>>)

\* lines 77-88
Authors(s) ==
  LET icml == IcmlAuthors(s, 1)
      k == Search(s, 1, LAMBDA t, i : TitleEnd(t, i, "\\author"))
  IN IF icml # <<>> THEN CleanEach(icml)
     ELSE IF k > 0
       THEN NonEmpty(CleanEach(SplitAnd(Slice(s, k + 2, LazyGroupEnd(s, k + 1) - 1))))
     ELSE <<>>

\* lines 91-95: \\begin\{abstract\}(.+?)\\end\{abstract\} with DOTALL
RECURSIVE AbstractClose(_, _)
AbstractClose(s, j) ==
  IF j > Len(s) THEN 0
  ELSE IF Env(s, j, "\\end", {"abstract"}) > 0 THEN j
  ELSE AbstractClose(s, j + 1)

AbstractEnd(s, i) ==
  IF Env(s, i, "\\begin", {"abstract"}) > 0 /\ i + 4 <= Len(s)
  THEN AbstractClose(s, i + 5) ELSE 0

Abstract(s) ==
  LET k == Search(s, 1, AbstractEnd)
  IN IF k = 0 THEN <<>> ELSE Strip(Slice(s, k + 4, AbstractEnd(s, k) - 1))

ExtractMetadata(s) ==
  [title |-> Title(s), authors |-> Authors(s), abstract |-> Abstract(s)]

-----------------------------------------------------------------------------
(* _strip_preamble: preprocessor.py 100-160 *)

\* line 103: \\documentclass(\[.*?\])?\{.*?\}\s*
DocumentClassEnd(s, i) ==
  IF At(s, i) = "\\documentclass"
  THEN OptBracketThen(s, i + 1, LAMBDA t, j : ThenWS(t, BraceArgOnLine(t, j)))
  ELSE 0

\* lines 107-117
Problematic ==
  <<"icml2026", "neurips", "acl", "emnlp", "microtype", "placeins",
    "todonotes", "newfloat", "mdframed", "fancyhdr", "geometry", "titlesec",
    "titling", "subcaption", "caption", "float", "wrapfig", "algorithm",
    "algorithmic", "algpseudocode", "cleveref", "xcolor", "color", "colortbl",
    "tabularx", "multirow", "makecell", "enumitem", "paralist", "natbib",
    "biblatex">>

\* line 120: \\usepackage(\[.*?\])?\{pkg\}\s*\n?
UsePackageEnd(s, i, pkg) ==
  IF At(s, i) = "\\usepackage"
  THEN OptBracketThen(s, i + 1,
         LAMBDA t, j : ThenWS(t, Lit(t, j, <<"{", pkg, "}">>)))
  ELSE 0

\* lines 118-121: one substitution for each package of the list, in order
RECURSIVE StripPackages(_, _)
StripPackages(s, k) ==
  IF k > Len(Problematic) THEN s
  ELSE LET next == SubAll(s, LAMBDA t, i : UsePackageEnd(t, i, Problematic[k]),
                     Delete)
       IN IF next = <<>> THEN <<>> ELSE StripPackages(next, k + 1)

\* line 128: re.match(\\usepackage(\[.*?\])?\{(\w+)\}, line.strip()): the
\* index of the closing brace, 0 when the line does not begin with a match
WordArgEnd(s, j) ==
  IF At(s, j) = "{" /\ At(s, j + 1) \in WholeWords
     /\ At(s, SkipToks(s, j + 1, WholeWords)) = "}"
  THEN SkipToks(s, j + 1, WholeWords) ELSE 0

KeptPackageEnd(line) ==
  IF At(line, 1) = "\\usepackage" THEN OptBracketThen(line, 2, WordArgEnd)
  ELSE 0

\* group 2 of that match
RECURSIVE PackageName(_, _)
PackageName(line, e) ==
  IF line[e - 1] = "{" THEN <<>>
  ELSE Append(PackageName(line, e - 1), line[e - 1])

\* lines 124-135: a line that loads a package already seen is dropped
RECURSIVE Dedupe(_, _)
Dedupe(lines, seen) ==
  IF lines = <<>> THEN <<>>
  ELSE LET e == KeptPackageEnd(Strip(Head(lines)))
           pkg == PackageName(Strip(Head(lines)), e)
       IN IF e > 0 /\ pkg \in seen THEN Dedupe(Tail(lines), seen)
          ELSE <<Head(lines)>>
               \o Dedupe(Tail(lines), IF e > 0 THEN seen \cup {pkg} ELSE seen)

\* lines 140-141: cmd(\[.*?\])?\{[^}]*\}
CmdOptArg(s, i, cmd) ==
  IF At(s, i) = cmd THEN OptBracketThen(s, i + 1, BraceArg) ELSE 0

\* lines 138-146: the layout commands, in the order of the list
LayoutCmds(s) ==
  LET s1 == SubAll(s, LAMBDA t, i : CmdArgs(t, i, "\\setlength", 2), Delete)
      s2 == SubAll(s1, LAMBDA t, i : CmdOptArg(t, i, "\\captionsetup"), Delete)
      s3 == SubAll(s2, LAMBDA t, i : CmdOptArg(t, i, "\\setlist"), Delete)
      s4 == SubAll(s3, LAMBDA t, i : CmdArgs(t, i, "\\pagestyle", 1), Delete)
  IN SubAll(s4, LAMBDA t, i : CmdArgs(t, i, "\\thispagestyle", 1), Delete)

\* cmd\{[^}]*\}...\{[^}]*\}\s*\n?  (\s* takes the line break as well)
CmdArgsWS(s, i, cmd, n) == ThenWS(s, CmdArgs(s, i, cmd, n))

\* line 150: \\newtheorem(\*?)(\{[^}]*\})+\s*\n?
NewTheoremEnd(s, i) ==
  IF At(s, i) = "\\newtheorem"
  THEN ThenWS(s, BraceArgsMany(s, IF At(s, i + 1) = "*" THEN i + 2 ELSE i + 1))
  ELSE 0

\* lines 153-158: cmd\[[\s\S]*?\]\{[^}]*\}\s*\n?
CmdBracketArgWS(s, i, cmd) ==
  IF At(s, i) = cmd
  THEN LazyBracketThen(s, i + 1, LAMBDA t, j : ThenWS(t, BraceArg(t, j)))
  ELSE 0

StripPreamble(s) ==
  LET s1 == SubAll(s, DocumentClassEnd, Delete)
      s2 == StripPackages(s1, 1)
      s3 == JoinLines(Dedupe(SplitLines(s2), {}))
      s4 == LayoutCmds(s3)
      s5 == SubAll(s4, LAMBDA t, i : CmdArgsWS(t, i, "\\theoremstyle", 1), Delete)
      s6 == SubAll(s5, NewTheoremEnd, Delete)
      s7 == SubAll(s6,
              LAMBDA t, i : CmdBracketArgWS(t, i, "\\DeclareFloatingEnvironment"),
              Delete)
  IN SubAll(s7, LAMBDA t, i : CmdBracketArgWS(t, i, "\\newmdenv"), Delete)

-----------------------------------------------------------------------------
(* _strip_conference_commands: preprocessor.py 163-193 *)

\* line 172: \\printAffiliationsAndNotice(\{[^}]*\})?\s*\n?
PrintAffiliationsEnd(s, i) ==
  IF At(s, i) = "\\printAffiliationsAndNotice"
  THEN SkipWS(s, IF BraceArg(s, i + 1) > 0 THEN BraceArg(s, i + 1) ELSE i + 1)
  ELSE 0

\* lines 178-182: \\begin\{icmlauthorlist\}[\s\S]*?\\end\{icmlauthorlist\}\s*
AuthorListEnd(s, i) ==
  IF Env(s, i, "\\begin", {"icmlauthorlist"}) = 0 THEN 0
  ELSE LET k == Search(s, i + 4,
                  LAMBDA t, j : Env(t, j, "\\end", {"icmlauthorlist"}))
       IN IF k = 0 THEN 0 ELSE SkipWS(s, k + 4)

\* line 186: \\twocolumn\[
TwoColumnEnd(s, i) == Lit(s, i, <<"\\twocolumn", "[">>)

\* the largest index in from..to - 1 that holds a line break, 0 when none
RECURSIVE LastNewline(_, _, _)
LastNewline(s, from, to) ==
  IF to <= from THEN 0
  ELSE IF s[to - 1] = "\n" THEN to - 1 ELSE LastNewline(s, from, to - 1)

\* line 188: ^\]\s*$ with MULTILINE: a "]" that opens a line, and the white
\* space behind it up to the end of the text or to the last line break of
\* that white space
LoneBracketEnd(s, i) ==
  IF At(s, i) = "]" /\ (i = 1 \/ At(s, i - 1) = "\n")
  THEN LET j == SkipWS(s, i + 1)
       IN IF j > Len(s) THEN j ELSE LastNewline(s, i + 1, j)
  ELSE 0

\* line 191: \\neurips.*?\{[^}]*\}\s*\n?
RECURSIVE BraceOnLine(_, _)
BraceOnLine(s, j) ==
  IF j > Len(s) \/ s[j] = "\n" THEN 0
  ELSE IF BraceArg(s, j) > 0 THEN j ELSE BraceOnLine(s, j + 1)

NeuripsCmdEnd(s, i) ==
  IF At(s, i) \in NeuripsCmds /\ BraceOnLine(s, i + 1) > 0
  THEN SkipWS(s, BraceArg(s, BraceOnLine(s, i + 1))) ELSE 0

StripConferenceCommands(s, m) ==
  LET s1 == SubAll(s, LAMBDA t, i : CmdArgsWS(t, i, "\\icmltitlerunning", 1), Delete)
      s2 == SubAll(s1, LAMBDA t, i : CmdArgsWS(t, i, "\\icmlsetsymbol", 2), Delete)
      s3 == SubAll(s2, LAMBDA t, i : CmdArgsWS(t, i, "\\icmlkeywords", 1), Delete)
      s4 == SubAll(s3, LAMBDA t, i : CmdArgsWS(t, i, "\\icmlaffiliation", 2), Delete)
      s5 == SubAll(s4,
              LAMBDA t, i : CmdArgsWS(t, i, "\\icmlcorrespondingauthor", 2), Delete)
      s6 == SubAll(s5, PrintAffiliationsEnd, Delete)
      s7 == SubAll(s6, LAMBDA t, i : CmdArgsWS(t, i, "\\icmltitle", 1), Delete)
      s8 == SubAll(s7, AuthorListEnd, Delete)
      s9 == SubAll(s8, TwoColumnEnd, Delete)
      s10 == SubAll(s9, LoneBracketEnd, Delete)
  IN SubAll(s10, NeuripsCmdEnd, Delete)

-----------------------------------------------------------------------------
(* _convert_environments: preprocessor.py 196-272 *)

Quote(cmd) == EnvToks(cmd, "quote")

Bold(word) == <<"\\textbf", "{", word, "}">>

\* line 200: \\begin\{subfigure\}(?:\[[^\]]*\])?\{[^}]*\}
SubfigureEnd(s, i) ==
  LET j == Env(s, i, "\\begin", {"subfigure"})
  IN IF j = 0 THEN 0
     ELSE BraceArg(s, IF BracketArg(s, j) > 0 THEN BracketArg(s, j) ELSE j)

\* lines 208, 224, 234, 253, 266: \\begin\{env\}(\[.*?\])?
BeginOptEnd(s, i, env) ==
  IF Env(s, i, "\\begin", {env}) > 0 THEN OptBracket(s, i + 4) ELSE 0

EndEnvEnd(s, i, env) == Env(s, i, "\\end", {env})

\* line 217: re.search(frametitle=([^,\]]+), opts): the index behind the
\* group, for a match that starts at k
FrameTitleEnd(s, k) ==
  IF At(s, k) = "frametitle" /\ At(s, k + 1) = "="
     /\ At(s, k + 2) \notin {",", "]", ""}
  THEN LET j == FindTok(s, k + 2, {",", "]"})
       IN IF j = 0 THEN Len(s) + 1 ELSE j
  ELSE 0

\* lines 215-221: the replacement of \begin{mymessagebox}[opts]
MessageBox(s, i, e) ==
  LET opts == Slice(s, i + 4, e - 1)
      k == Search(opts, 1, FrameTitleEnd)
  IN (IF k > 0
      THEN <<"\\textbf", "{">>
           \o Strip(Slice(opts, k + 2, FrameTitleEnd(opts, k) - 1))
           \o <<"}", "\n", "\n">>
      ELSE <<>>)
     \o Quote("\\begin")

\* lines 244-250: cmd\{([^}]*)\}  ->  \textbf{first} \(\1\) \textbf{second}
\* the template is a raw string with doubled backslashes, so its \\1 is a
\* backslash and the digit 1, not the group
Keyword(open, close) ==
  Bold(open) \o <<" ", "\\(", "\\1", "\\)", " ">> \o Bold(close)

\* lines 241-254
Algorithmic(s) ==
  LET s1 == SubAll(s, LAMBDA t, i : CmdBoundary(t, i, "\\REQUIRE"),
              LAMBDA t, i, e : Bold("Require:"))
      s2 == SubAll(s1, LAMBDA t, i : CmdBoundary(t, i, "\\ENSURE"),
              LAMBDA t, i, e : Bold("Ensure:"))
      s3 == SubAll(s2, LAMBDA t, i : CmdBoundary(t, i, "\\STATE"), Delete)
      s4 == SubAll(s3, LAMBDA t, i : CmdArgs(t, i, "\\IF", 1),
              LAMBDA t, i, e : Keyword("if", "then"))
      s5 == SubAll(s4, LAMBDA t, i : CmdArgs(t, i, "\\ELSIF", 1),
              LAMBDA t, i, e : Keyword("else if", "then"))
      s6 == SubAll(s5, LAMBDA t, i : CmdBoundary(t, i, "\\ELSE"),
              LAMBDA t, i, e : Bold("else"))
      s7 == SubAll(s6, LAMBDA t, i : CmdBoundary(t, i, "\\ENDIF"),
              LAMBDA t, i, e : Bold("end if"))
      s8 == SubAll(s7, LAMBDA t, i : CmdArgs(t, i, "\\FOR", 1),
              LAMBDA t, i, e : Keyword("for", "do"))
      s9 == SubAll(s8, LAMBDA t, i : CmdBoundary(t, i, "\\ENDFOR"),
              LAMBDA t, i, e : Bold("end for"))
      s10 == SubAll(s9, LAMBDA t, i : CmdArgs(t, i, "\\WHILE", 1),
               LAMBDA t, i, e : Keyword("while", "do"))
      s11 == SubAll(s10, LAMBDA t, i : CmdBoundary(t, i, "\\ENDWHILE"),
               LAMBDA t, i, e : Bold("end while"))
      s12 == SubAll(s11, LAMBDA t, i : CmdBoundary(t, i, "\\RETURN"),
               LAMBDA t, i, e : Bold("return"))
      s13 == SubAll(s12, LAMBDA t, i : BeginOptEnd(t, i, "algorithmic"), Delete)
  IN SubAll(s13, LAMBDA t, i : EndEnvEnd(t, i, "algorithmic"), Delete)

\* lines 257-260: str.replace of \begin{figure*} and its like
StarredEnd(s, i) ==
  IF At(s, i) \in {"\\begin", "\\end"} /\ At(s, i + 1) = "{"
     /\ At(s, i + 2) \in {"figure", "table"} /\ At(s, i + 3) = "*"
     /\ At(s, i + 4) = "}"
  THEN i + 5 ELSE 0

Unstarred(s, i, e) == <<s[i], "{", s[i + 2], "}">>

\* lines 263-264, and env.capitalize() followed by a full stop
TheoremEnvs ==
  <<"theorem", "lemma", "proposition", "corollary", "definition",
    "assumption", "remark">>

Capitalized ==
  <<"Theorem.", "Lemma.", "Proposition.", "Corollary.", "Definition.",
    "Assumption.", "Remark.">>

\* lines 263-270: for each environment, its opening and then its closing
RECURSIVE TheoremLike(_, _)
TheoremLike(s, k) ==
  IF k > Len(TheoremEnvs) THEN s
  ELSE TheoremLike(
         SubAll(SubAll(s, LAMBDA t, i : BeginOptEnd(t, i, TheoremEnvs[k]),
                  LAMBDA t, i, e : Bold(Capitalized[k]) \o <<" ">>),
           LAMBDA t, i : EndEnvEnd(t, i, TheoremEnvs[k]),
           LAMBDA t, i, e : <<"\n">>),
         k + 1)

ConvertEnvironments(s) ==
  LET s1 == SubAll(s, SubfigureEnd, Delete)
      s2 == SubAll(s1, LAMBDA t, i : EndEnvEnd(t, i, "subfigure"), Delete)
      s3 == SubAll(s2, LAMBDA t, i : CmdBoundary(t, i, "\\hfill"), Delete)
      s4 == SubAll(s3, LAMBDA t, i : BeginOptEnd(t, i, "prompt"),
              LAMBDA t, i, e : Quote("\\begin"))
      s5 == SubAll(s4, LAMBDA t, i : EndEnvEnd(t, i, "prompt"),
              LAMBDA t, i, e : Quote("\\end"))
      s6 == SubAll(s5, LAMBDA t, i : BeginOptEnd(t, i, "mymessagebox"),
              MessageBox)
      s7 == SubAll(s6, LAMBDA t, i : EndEnvEnd(t, i, "mymessagebox"),
              LAMBDA t, i, e : Quote("\\end"))
      s8 == SubAll(s7, LAMBDA t, i : BeginOptEnd(t, i, "algorithm"),
              LAMBDA t, i, e : Quote("\\begin"))
      s9 == SubAll(s8, LAMBDA t, i : EndEnvEnd(t, i, "algorithm"),
              LAMBDA t, i, e : Quote("\\end"))
      s10 == SubAll(Algorithmic(s9), StarredEnd, Unstarred)
  IN TheoremLike(s10, 1)

-----------------------------------------------------------------------------
(* _expand_simple_macros: preprocessor.py 275-307 *)

DefCmds == {"\\newcommand", "\\renewcommand"}

\* \\(?:new|renew)command\{(\\[a-zA-Z]+)\} at index i: the index behind the
\* closing brace of the name
DefNameEnd(s, i) ==
  IF At(s, i) \in DefCmds /\ At(s, i + 1) = "{" /\ At(s, i + 2) \in Commands
     /\ At(s, SkipToks(s, i + 3, Letters)) = "}"
  THEN SkipToks(s, i + 3, Letters) + 1 ELSE 0

\* [^{}]*(?:\{[^{}]*\}[^{}]*)*\} from index k: the index of the brace that
\* closes the replacement; groups nest one level deep at most
RECURSIVE BodyClose(_, _, _)
BodyClose(s, k, inner) ==
  IF k > Len(s) THEN 0
  ELSE IF s[k] = "{" THEN (IF inner THEN 0 ELSE BodyClose(s, k + 1, TRUE))
  ELSE IF s[k] = "}" THEN (IF inner THEN BodyClose(s, k + 1, FALSE) ELSE k)
  ELSE BodyClose(s, k + 1, inner)

\* \{ body \} at index j: the index behind the closing brace
DefBodyEnd(s, j) ==
  IF j > 0 /\ At(s, j) = "{" /\ BodyClose(s, j + 1, FALSE) > 0
  THEN BodyClose(s, j + 1, FALSE) + 1 ELSE 0

\* line 280: a definition without an argument count
DefEnd(s, i) == DefBodyEnd(s, DefNameEnd(s, i))

DigitToks == {"1"}

\* (?:\[\d+\])? at index j
ArgCountEnd(s, j) ==
  IF At(s, j) = "[" /\ At(s, j + 1) \in DigitToks
     /\ At(s, SkipToks(s, j + 1, DigitToks)) = "]"
  THEN SkipToks(s, j + 1, DigitToks) + 1 ELSE j

\* line 291: a definition, with or without an argument count, and the white
\* space behind it
DefRemoveEnd(s, i) ==
  IF DefNameEnd(s, i) = 0 THEN 0
  ELSE ThenWS(s, DefBodyEnd(s, ArgCountEnd(s, DefNameEnd(s, i))))

\* macros[cmd] = replacement on a dict: a new key goes to the end, a known
\* key keeps its place
RECURSIVE Put(_, _, _)
Put(macros, cmd, replacement) ==
  IF macros = <<>> THEN <<[cmd |-> cmd, replacement |-> replacement]>>
  ELSE IF Head(macros).cmd = cmd
    THEN <<[cmd |-> cmd, replacement |-> replacement]>> \o Tail(macros)
  ELSE <<Head(macros)>> \o Put(Tail(macros), cmd, replacement)

\* lines 278-287: re.finditer over the definitions
RECURSIVE Macros(_, _, _)
Macros(s, i, macros) ==
  LET k == Search(s, i, DefEnd)
  IN IF k = 0 THEN macros
     ELSE LET n == DefNameEnd(s, k)
              replacement == Slice(s, n + 1, DefEnd(s, k) - 2)
          IN Macros(s, DefEnd(s, k),
               IF "#" \in {replacement[j] : j \in DOMAIN replacement}
               THEN macros
               ELSE Put(macros, Slice(s, k + 2, n - 2), replacement))

\* line 300 hands the replacement to re.sub as a template: there a backslash
\* and a letter are an escape sequence.  \a, \b, \f, \n, \r, \t and \v stand
\* for a control character (the rest of the command name follows it as
\* text); every other letter makes re.sub raise re.error.
Escapes ==
  [c \in {"\\alpha", "\\author", "\\and", "\\begin", "\\bibliographystyle",
          "\\newcommand", "\\noindent", "\\ref", "\\renewcommand",
          "\\title", "\\textbf", "\\textwidth", "\\todo", "\\vspace"} |->
     CASE c = "\\alpha" -> <<"<BEL>", "lpha">>
       [] c = "\\author" -> <<"<BEL>", "uthor">>
       [] c = "\\and" -> <<"<BEL>", "nd">>
       [] c = "\\begin" -> <<"<BS>", "egin">>
       [] c = "\\bibliographystyle" -> <<"<BS>", "ibliographystyle">>
       [] c = "\\newcommand" -> <<"\n", "ewcommand">>
       [] c = "\\noindent" -> <<"\n", "oindent">>
       [] c = "\\ref" -> <<"\r", "ef">>
       [] c = "\\renewcommand" -> <<"\r", "enewcommand">>
       [] c = "\\title" -> <<"\t", "itle">>
       [] c = "\\textbf" -> <<"\t", "extbf">>
       [] c = "\\textwidth" -> <<"\t", "extwidth">>
       [] c = "\\todo" -> <<"\t", "odo">>
       [] c = "\\vspace" -> <<"<VT>", "space">>]

BadEscape(replacement) ==
  \E j \in DOMAIN replacement :
    replacement[j] \in Commands \ DOMAIN Escapes

\* the text a template stands for (no other token of the model holds a
\* backslash)
RECURSIVE Template(_)
Template(replacement) ==
  IF replacement = <<>> THEN <<>>
  ELSE (IF Head(replacement) \in DOMAIN Escapes
        THEN Escapes[Head(replacement)] ELSE <<Head(replacement)>>)
       \o Template(Tail(replacement))

\* line 299: re.escape(cmd) + (?![a-zA-Z])
OccurrenceEnd(s, i, cmd) ==
  IF Lit(s, i, cmd) > 0 /\ At(s, Lit(s, i, cmd)) \notin LetterToks
  THEN Lit(s, i, cmd) ELSE 0

\* lines 297-300: one re.sub for each macro, in the order of the dict
RECURSIVE Expand(_, _)
Expand(s, macros) ==
  IF macros = <<>> THEN [raised |-> FALSE, text |-> s]
  ELSE IF BadEscape(Head(macros).replacement)
    THEN [raised |-> TRUE, text |-> s]
  ELSE Expand(
         SubAll(s, LAMBDA t, i : OccurrenceEnd(t, i, Head(macros).cmd),
           LAMBDA t, i, e : Template(Head(macros).replacement)),
         Tail(macros))

TodoCmds ==
  {"\\todo", "\\davide", "\\sasha", "\\joel", "\\logan", "\\wil",
   "\\vezhnick"}

\* line 304: \\(?:todo|...)\{[^}]*\}
TodoEnd(s, i) == IF At(s, i) \in TodoCmds THEN BraceArg(s, i + 1) ELSE 0

\* line 305: \\(?:todo|...)\[[^\]]*\]\{[^}]*\}
TodoOptEnd(s, i) ==
  IF At(s, i) \in TodoCmds /\ BracketArg(s, i + 1) > 0
  THEN BraceArg(s, BracketArg(s, i + 1)) ELSE 0

\* the result of _expand_simple_macros: the text it returns, or raised
ExpandSimpleMacros(s) ==
  LET x == Expand(SubAll(s, DefRemoveEnd, Delete), Macros(s, 1, <<>>))
  IN IF x.raised THEN x
     ELSE [raised |-> FALSE,
           text |-> SubAll(SubAll(x.text, TodoEnd, Delete), TodoOptEnd, Delete)]

-----------------------------------------------------------------------------
(* _fix_image_paths: preprocessor.py 310-338 *)

\* line 320
ImageExts == <<".png", ".jpg", ".jpeg", ".pdf", ".svg">>

DotToks == {ImageExts[k] : k \in DOMAIN ImageExts}

\* numbers: the tokens [\d.]+ matches as a whole
NumToks == DigitToks \cup {"0.5"}

\* line 334: \\includegraphics(?:\[([^\]]*)\])?\{([^}]+)\}
GraphicsEnd(s, i) ==
  IF At(s, i) = "\\includegraphics"
  THEN BraceArgNonEmpty(s, IF BracketArg(s, i + 1) > 0
                           THEN BracketArg(s, i + 1) ELSE i + 1)
  ELSE 0

\* line 319: Path(path_str).suffix is not empty: the name holds a dot that
\* is not its first character (the paths of the model have one component)
HasSuffix(path) == \E j \in 2..Len(path) : path[j] \in DotToks

\* lines 320-323: the first extension of the list for which the file exists
RECURSIVE FirstExtNoBreak(_, _, _, _)
FirstExtNoBreak(tree, work_dir, path, k) ==
  IF k > Len(ImageExts) THEN <<>>
  ELSE IF FirstExtNoBreak(tree, work_dir, path, k + 1) # <<>>
    THEN FirstExtNoBreak(tree, work_dir, path, k + 1)
  ELSE IF Exists(tree, JoinPath(work_dir, JoinToks(path) \o ImageExts[k]))
    THEN <<ImageExts[k]>>
  ELSE <<>>

RECURSIVE FirstExt(_, _, _, _)
FirstExt(tree, work_dir, path, k) ==
  IF k > Len(ImageExts) THEN <<>>
  ELSE IF Exists(tree, JoinPath(work_dir, JoinToks(path) \o ImageExts[k]))
    THEN <<ImageExts[k]>>
  ELSE FirstExt(tree, work_dir, path, k + 1)

WidthCmds == {"\\linewidth", "\\textwidth", "\\columnwidth"}

\* the tokens that end in "width"
EndInWidth == WidthCmds \cup {"width", "extwidth"}

\* lines 326-327: width\s*=\s*\\(?:line|text|column)width, and the same
\* with a number in front of the command (numbered = TRUE)
WidthEnd(s, i, numbered) ==
  IF At(s, i) \in EndInWidth /\ At(s, SkipWS(s, i + 1)) = "="
  THEN LET k == SkipWS(s, SkipWS(s, i + 1) + 1)
           c == IF numbered THEN SkipToks(s, k, NumToks) ELSE k
       IN IF (numbered => c > k) /\ At(s, c) \in WidthCmds THEN c + 1 ELSE 0
  ELSE 0

TextWidth(s, i, e) == <<s[i], "=", "\\textwidth">>

SimplifyWidth(opts) ==
  SubAll(SubAll(opts, LAMBDA t, i : WidthEnd(t, i, FALSE), TextWidth),
    LAMBDA t, i : WidthEnd(t, i, TRUE), TextWidth)

\* lines 313-331: _fix_path
FixPath(s, i, e, tree, work_dir) ==
  LET b == BracketArg(s, i + 1)
      opts == IF b > 0 THEN SimplifyWidth(Slice(s, i + 2, b - 2)) ELSE <<>>
      path == Slice(s, (IF b > 0 THEN b ELSE i + 1) + 1, e - 2)
      fixed == IF HasSuffix(path) THEN path
               ELSE path \o FirstExt(tree, work_dir, path, 1)
  IN <<"\\includegraphics">>
     \o (IF opts # <<>> THEN <<"[">> \o opts \o <<"]">> ELSE <<>>)
     \o <<"{">> \o fixed \o <<"}">>

FixImagePaths(s, tree, work_dir) ==
  SubAll(s, GraphicsEnd, LAMBDA t, i, e : FixPath(t, i, e, tree, work_dir))

-----------------------------------------------------------------------------
(* _prepare_bibliography: preprocessor.py 341-363 *)

\* line 361: \\bibliographystyle\{[^}]*\}\s*\n?  (lines 348-358 look for the
\* .bib file and change nothing)
PrepareBibliography(s, tree, work_dir) ==
  SubAll(s, LAMBDA t, i : CmdArgsWS(t, i, "\\bibliographystyle", 1), Delete)

-----------------------------------------------------------------------------
(* _final_cleanup: preprocessor.py 366-408 *)

\* lines 369-373: (\\begin\{(?:figure|table)\})\s*\[[^\]]*\]  ->  \1
FloatSpecEnd(s, i) ==
  IF Env(s, i, "\\begin", {"figure", "table"}) > 0
  THEN BracketArg(s, SkipWS(s, i + 4)) ELSE 0

KeepBegin(s, i, e) == Slice(s, i, i + 3)

Dimens == {"1cm", "2cm"}

\* line 377: \\vskip\s+[\d.]+(?:in|pt|em|cm|mm)\s*
VskipEnd(s, i) ==
  IF At(s, i) = "\\vskip" /\ At(s, i + 1) \in WS
     /\ At(s, SkipToks(s, SkipWS(s, i + 1), NumToks)) \in Dimens
  THEN SkipWS(s, SkipToks(s, SkipWS(s, i + 1), NumToks) + 1) ELSE 0

\* lines 378-379: cmd\*?\{[^}]*\}\s*
SpaceEnd(s, i, cmd) ==
  IF At(s, i) = cmd
  THEN ThenWS(s, BraceArg(s, IF At(s, i + 1) = "*" THEN i + 2 ELSE i + 1))
  ELSE 0

VspaceEnd(s, i) == SpaceEnd(s, i, "\\vspace")

\* lines 380-385 and 397: cmd\s*
CmdWS(s, i, cmd) == IF At(s, i) = cmd THEN SkipWS(s, i + 1) ELSE 0

\* lines 386-395: cmd\b\s*
CmdBoundaryWS(s, i, cmd) == ThenWS(s, CmdBoundary(s, i, cmd))

PlainCmds ==
  <<"\\FloatBarrier", "\\clearpage", "\\newpage", "\\noindent",
    "\\centering", "\\raggedright">>

SizeCmds ==
  <<"\\small", "\\footnotesize", "\\scriptsize", "\\tiny", "\\large",
    "\\Large", "\\LARGE", "\\huge", "\\Huge", "\\normalsize">>

RECURSIVE RemovePlain(_, _)
RemovePlain(s, k) ==
  IF k > Len(PlainCmds) THEN s
  ELSE RemovePlain(
         SubAll(s, LAMBDA t, i : CmdWS(t, i, PlainCmds[k]), Delete), k + 1)

RECURSIVE RemoveSizes(_, _)
RemoveSizes(s, k) ==
  IF k > Len(SizeCmds) THEN s
  ELSE RemoveSizes(
         SubAll(s, LAMBDA t, i : CmdBoundaryWS(t, i, SizeCmds[k]), Delete),
         k + 1)

\* line 396: \\fontfamily\{[^}]*\}\\selectfont\s*
FontFamilyEnd(s, i) ==
  LET j == CmdArgs(s, i, "\\fontfamily", 1)
  IN IF j > 0 /\ At(s, j) = "\\selectfont" THEN SkipWS(s, j + 1) ELSE 0

\* lines 376-400: the removals, in the order of the list
Removals(s) ==
  LET s1 == SubAll(s, VskipEnd, Delete)
      s2 == SubAll(s1, VspaceEnd, Delete)
      s3 == SubAll(s2, LAMBDA t, i : SpaceEnd(t, i, "\\hspace"), Delete)
      s4 == RemoveSizes(RemovePlain(s3, 1), 1)
      s5 == SubAll(s4, FontFamilyEnd, Delete)
  IN SubAll(s5, LAMBDA t, i : CmdWS(t, i, "\\selectfont"), Delete)

\* line 403: \\[Cc]ref\{  ->  \\ref{
CrefEnd(s, i) ==
  IF At(s, i) \in {"\\cref", "\\Cref"} /\ At(s, i + 1) = "{" THEN i + 2 ELSE 0

ToRef(s, i, e) == <<"\\ref", "{">>

\* line 406: \n{3,}  ->  \n\n
BlankLinesEnd(s, i) ==
  IF At(s, i) = "\n" /\ At(s, i + 1) = "\n" /\ At(s, i + 2) = "\n"
  THEN SkipToks(s, i, {"\n"}) ELSE 0

TwoNewlines(s, i, e) == <<"\n", "\n">>

FinalCleanup(s) ==
  LET s1 == SubAll(s, FloatSpecEnd, KeepBegin)
      s2 == Removals(s1)
      s3 == SubAll(s2, CrefEnd, ToRef)
  IN SubAll(s3, BlankLinesEnd, TwoNewlines)

-----------------------------------------------------------------------------
(* _rebuild_document: preprocessor.py 411-442 *)

BeginDoc == EnvToks("\\begin", "document")

EndDoc == EnvToks("\\end", "document")

BeginDocAt(s, i) == Env(s, i, "\\begin", {"document"})

EndDocAt(s, i) == Env(s, i, "\\end", {"document"})

\* line 414: re.search(\\begin\{document\}(.*?)\\end\{document\}, DOTALL):
\* the first begin marker that has an end marker behind it
DocumentEnd(s, i) ==
  IF BeginDocAt(s, i) > 0 THEN Search(s, i + 4, EndDocAt) ELSE 0

\* lines 415-418
Body(s) ==
  LET k == Search(s, 1, DocumentEnd)
  IN IF k > 0 THEN Slice(s, k + 4, DocumentEnd(s, k) - 1) ELSE s

UsePackage(pkg) == <<"\\usepackage", "{", pkg, "}", "\n">>

\* lines 421-427
FixedPreamble ==
  <<"\\documentclass", "{", "article", "}", "\n">> \o UsePackage("amsmath")
  \o UsePackage("amssymb") \o UsePackage("graphicx") \o UsePackage("hyperref")
  \o UsePackage("booktabs")

\* line 433: " \\and ".join(meta.authors)
RECURSIVE JoinAuthors(_)
JoinAuthors(authors) ==
  IF Len(authors) = 1 THEN authors[1]
  ELSE authors[1] \o <<" ", "\\and", " ">> \o JoinAuthors(Tail(authors))

\* lines 429-442
RebuildDocument(s, m) ==
  FixedPreamble
  \o (IF m.title # <<>> THEN <<"\\title", "{">> \o m.title \o <<"}", "\n">>
      ELSE <<>>)
  \o (IF m.authors # <<>>
      THEN <<"\\author", "{">> \o JoinAuthors(m.authors) \o <<"}", "\n">>
      ELSE <<>>)
  \o <<"\n">> \o BeginDoc \o <<"\n">>
  \o (IF m.title # <<>> THEN <<"\\maketitle", "\n">> ELSE <<>>)
  \o Body(s)
  \o <<"\n">> \o EndDoc \o <<"\n">>

-----------------------------------------------------------------------------
(* The source trees and the specification of include resolution *)

Directive(cmd, name) == <<cmd, "{", name, "}">>

\* what the main file is made of
IncItems ==
  {<<"x">>, Directive("\\input", "b.tex")} \cup
  {Directive(cmd, name) : cmd \in {"\\input", "\\include"}, name \in {"b", "sub/a"}}

\* what an included file holds
SubTexts ==
  {<<"x">>, Directive("\\input", "b"), Directive("\\include", "b")}

OtherFiles == {"b.tex", "sub/a.tex", "sub/b.tex"}

\* the trees: main.tex is there, each other file is there or not
Trees ==
  UNION {
    {[p \in {MainFile} \cup present |->
        IF p = MainFile THEN main ELSE sub[p]] :
       main \in Texts(IncItems, MaxItems), sub \in [present -> SubTexts]} :
    present \in SUBSET OtherFiles}

\* lines 25-28: preprocess() reads the main file and resolves it at depth 0
StartResolve(tree) ==
  <<Frame(tree[MainFile], Fill(Len(tree[MainFile]), Root), Root, 0)>>

StageIdle ==
  /\ stage = "none" /\ buf = <<>> /\ res = <<>> /\ spc = "idle"

NoMeta == [title |-> <<>>, authors |-> <<>>, abstract |-> <<>>]

NoFiles == [p \in {} |-> <<>>]

NoArchive == [kind |-> "none", entries |-> <<>>]

PatchIdle ==
  /\ ppc = "idle" /\ epub = NoArchive /\ fonts_dir = {} /\ tmp_dir = "none"
  /\ unpacked = NoFiles /\ extracted = NoFiles /\ content_dir = <<>>
  /\ copied = {} /\ err = "" /\ nrun = 0

CiteIdle ==
  /\ frags = <<>> /\ frags0 = <<>> /\ prev = <<>> /\ runs = 0 /\ cpc = "idle"
  /\ bib = [chapter |-> 0, ids |-> {}] /\ xf = 0 /\ content = <<>> /\ pos = 0
  /\ result = <<>> /\ span_end = 0 /\ iters = 0

InitInclude ==
  /\ fs \in Trees
  /\ stack = StartResolve(fs)
  /\ ipc = "resolve"
  /\ resolved = [text |-> <<>>, org |-> <<>>]
  /\ deepest = 0
  /\ pass = 1 /\ doc = <<>> /\ meta = NoMeta /\ first = <<>>
  /\ StageIdle /\ CiteIdle /\ PatchIdle

NextInclude == IncBail \/ IncCall \/ IncKeep \/ IncSecondPass \/ IncReturn

SpecInclude == InitInclude /\ [][NextInclude]_vars

\* _resolve_includes is sequential code: it takes its next step
FairSpecInclude == SpecInclude /\ WF_vars(NextInclude)

\* C6: include resolution ends for every source tree, circular ones
\* included; no call is more than DepthLimit + 1 deep, and a call deeper than
\* DepthLimit resolves nothing: it hands its text back as it got it.
C6_Terminates ==
  /\ <>(ipc = "resolved")
  /\ [](\A k \in DOMAIN stack :
          /\ stack[k].depth = k - 1
          /\ stack[k].depth <= DepthLimit + 1
          /\ stack[k].depth > DepthLimit =>
               /\ stack[k].pos = 1 /\ stack[k].out = <<>>
               /\ stack[k].phase = "input")
  /\ [][(Len(stack) > 1 /\ Top.depth > DepthLimit) =>
          /\ Len(stack') = Len(stack) - 1
          /\ stack'[Len(stack')].out =
               stack[Len(stack) - 1].out \o Top.content]_vars

\* a circular tree was resolved: the deepest call went beyond the bound
C6_Witness == ipc = "resolved" /\ deepest = DepthLimit + 1

\* C7: whenever a directive is replaced by the text of a file, that file
\* exists relative to the directory of the file the directive was read from
\* (so a directive whose file is missing there stays in the text).
C7_RelativeToOwnFile ==
  [][Len(stack') = Len(stack) + 1 =>
       LET f == Top
           i == NextDirective(f.content, f.pos, PhaseCmd(f.phase))
           e == DirectiveEnd(f.content, i, PhaseCmd(f.phase))
       IN Exists(fs, JoinPath(f.org[i], TargetName(f.content, i, e)))]_vars

-----------------------------------------------------------------------------
(* One rewrite stage applied to one buffer *)

\* bound: items in the buffer handed to a stage
MaxParts == 3

Definition(cmd, replacement) ==
  <<"\\newcommand", "{", cmd, "}", "{">> \o replacement \o <<"}">>

Graphics(path) == <<"\\includegraphics", "{">> \o path \o <<"}">>

StageItems ==
  [extract_metadata |->
     {<<"\\icmltitle", "{", "A", "}">>, <<"\\title", "{", "B", "}">>,
      <<"\\neuripstitle", "{", "T", "}">>, <<"\\neuripsfinal">>, <<"x">>},
   strip_preamble |->
     {<<"\\documentclass", "{", "article", "}">>, UsePackage("natbib"),
      UsePackage("amsmath"), <<"x">>},
   strip_conference_commands |->
     {<<"\\icmltitle", "{", "T", "}">>, <<"\\twocolumn", "[">>, <<"]">>,
      <<"\n">>, <<"x">>},
   convert_environments |->
     {EnvToks("\\begin", "theorem"), EnvToks("\\end", "theorem"),
      <<"\\begin", "{", "figure", "*", "}">>, <<"\\hfill">>, <<"x">>},
   expand_simple_macros |->
     {Definition("\\R", <<"y">>), Definition("\\R", <<"\\alpha">>),
      Definition("\\R", <<"\\mathbb", "{", "x", "}">>), <<"\\R">>, <<"x">>,
      <<" ">>},
   fix_image_paths |->
     {Graphics(<<"fig">>), Graphics(<<"fig", ".png">>),
      <<"\\includegraphics", "[", "width", "=", "0.5", "\\linewidth", "]">>,
      <<"x">>},
   prepare_bibliography |->
     {<<"\\bibliographystyle", "{", "x", "}">>, <<"\n">>, <<"x">>},
   final_cleanup |->
     {<<"\\vspace", "{", "1cm", "}">>, <<"\\vspace">>, <<"{", "2cm", "}">>,
      <<" ">>, <<"\\noindent">>, <<"x">>},
   rebuild_document |-> {BeginDoc, EndDoc, <<"\n">>, <<"x">>}]

Stages == DOMAIN StageItems

\* the images next to the main file
ImageTrees ==
  {[p \in present |-> <<>>] : present \in SUBSET {"fig.jpg", "fig.pdf"}}

StageMetas ==
  {NoMeta, [title |-> <<"T">>, authors |-> <<<<"A">>, <<"B">>>>,
            abstract |-> <<>>]}

InitStage ==
  /\ stage \in Stages
  /\ buf \in Texts(StageItems[stage], MaxParts)
  /\ res = <<>> /\ spc = "ready"
  /\ fs \in ImageTrees /\ meta \in StageMetas
  /\ stack = <<>> /\ ipc = "idle" /\ resolved = [text |-> <<>>, org |-> <<>>]
  /\ deepest = 0 /\ pass = 1 /\ doc = <<>> /\ first = <<>>
  /\ CiteIdle /\ PatchIdle

\* a stage returns text
Returns(text) ==
  /\ res' = text /\ spc' = "returned"
  /\ UNCHANGED <<stage, buf, prepVars, citeVars, patchVars>>

\* _extract_metadata returns the metadata
RunExtractMetadata ==
  /\ stage = "extract_metadata" /\ spc = "ready"
  /\ meta' = ExtractMetadata(buf)
  /\ spc' = "returned"
  /\ UNCHANGED <<stage, buf, res, fs, stack, ipc, resolved, deepest, pass, doc,
                 first, citeVars, patchVars>>

RunStripPreamble ==
  /\ stage = "strip_preamble" /\ spc = "ready"
  /\ Returns(StripPreamble(buf))

RunStripConferenceCommands ==
  /\ stage = "strip_conference_commands" /\ spc = "ready"
  /\ Returns(StripConferenceCommands(buf, meta))

RunConvertEnvironments ==
  /\ stage = "convert_environments" /\ spc = "ready"
  /\ Returns(ConvertEnvironments(buf))

\* re.error leaves _expand_simple_macros: nothing in it catches it
RunExpandSimpleMacros ==
  /\ stage = "expand_simple_macros" /\ spc = "ready"
  /\ \E x \in {ExpandSimpleMacros(buf)} :
       IF x.raised
       THEN /\ spc' = "raised"
            /\ UNCHANGED <<stage, buf, res, prepVars, citeVars, patchVars>>
       ELSE Returns(x.text)

RunFixImagePaths ==
  /\ stage = "fix_image_paths" /\ spc = "ready"
  /\ Returns(FixImagePaths(buf, fs, Root))

RunPrepareBibliography ==
  /\ stage = "prepare_bibliography" /\ spc = "ready"
  /\ Returns(PrepareBibliography(buf, fs, Root))

RunFinalCleanup ==
  /\ stage = "final_cleanup" /\ spc = "ready"
  /\ Returns(FinalCleanup(buf))

RunRebuildDocument ==
  /\ stage = "rebuild_document" /\ spc = "ready"
  /\ Returns(RebuildDocument(buf, meta))

NextStage ==
  \/ RunExtractMetadata
  \/ RunStripPreamble \/ RunStripConferenceCommands \/ RunConvertEnvironments
  \/ RunExpandSimpleMacros \/ RunFixImagePaths \/ RunPrepareBibliography
  \/ RunFinalCleanup \/ RunRebuildDocument

SpecStage == InitStage /\ [][NextStage]_vars

\* C2: no stage raises an error: whatever the text, every stage returns a
\* text; the macro expander returns for every definition without arguments,
\* whatever its replacement holds.
C2_NoStageRaises == spc # "raised"

\* the indices of text at which a definition begins
DefinitionsIn(text) == {i \in DOMAIN text : text[i] \in DefCmds}

\* text with every standalone \R replaced by the replacement: an occurrence
\* in front of a letter is the beginning of a longer name and stays
Standalone(text, i) == text[i] = "\\R" /\ At(text, i + 1) \notin LetterToks

Replaced(text, replacement) ==
  Flatten([i \in DOMAIN text |->
             IF Standalone(text, i) THEN replacement ELSE <<text[i]>>])

\* C8: when the text is one definition of \R without arguments and then a
\* body without definitions, the expander returns the body with every
\* standalone \R replaced by exactly the replacement text of the definition
\* and with every \R that begins a longer command name left as it is.
C8_ReplacedByExactlyR ==
  \A replacement \in {<<"y">>, <<"\\alpha">>} :
    (/\ stage = "expand_simple_macros" /\ spc = "returned"
     /\ Lit(buf, 1, Definition("\\R", replacement)) > 0
     /\ DefinitionsIn(buf) = {1})
    => LET body == From(buf, SkipWS(buf, Len(Definition("\\R", replacement)) + 1))
       IN res = Replaced(body, replacement)

\* the indices at which a marker of the document's boundary begins
BeginMarkers(text) == {i \in DOMAIN text : BeginDocAt(text, i) > 0}

EndMarkers(text) == {i \in DOMAIN text : EndDocAt(text, i) > 0}

\* C9: whatever the buffer, the rebuilt document holds exactly one
\* document-begin marker and exactly one document-end marker, the begin
\* marker in front of the end marker.
C9_OneBeginOneEnd ==
  (stage = "rebuild_document" /\ spc = "returned")
  => /\ Cardinality(BeginMarkers(res)) = 1
     /\ Cardinality(EndMarkers(res)) = 1
     /\ \A b \in BeginMarkers(res) : \A e \in EndMarkers(res) : b < e

\* C10: when the text handed to the final cleanup holds \vspace{1cm}
\* somewhere, the text it returns holds no \vspace at all.
C10_NoVspaceLeft ==
  (/\ stage = "final_cleanup" /\ spc = "returned"
   /\ \E i \in DOMAIN buf : Lit(buf, i, <<"\\vspace", "{", "1cm", "}">>) > 0)
  => \A i \in DOMAIN res : res[i] # "\\vspace"

\* the indices at which a title pattern matches: \icmltitle{..}, a name that
\* begins with \neurips and reaches a name ending in title{..}, \title{..}
IcmlTitles(text) == {i \in DOMAIN text : TitleEnd(text, i, "\\icmltitle") > 0}

NeuripsTitles(text) == {i \in DOMAIN text : NeuripsTitleEnd(text, i) > 0}

PlainTitles(text) == {i \in DOMAIN text : TitleEnd(text, i, "\\title") > 0}

\* the argument of the command at index i, cleaned
CleanArg(text, i) == CleanTex(Slice(text, i + 2, LazyGroupEnd(text, i + 1) - 1))

\* C16: the title comes from the first \icmltitle when there is one, wherever
\* the other title commands stand; otherwise from the first NeurIPS title
\* command when there is one; otherwise from the first \title; it is empty
\* when there is none of them.
C16_TitleByPriority ==
  (stage = "extract_metadata" /\ spc = "returned") =>
    IF IcmlTitles(buf) # {}
    THEN meta.title = CleanArg(buf, Least(IcmlTitles(buf)))
    ELSE IF NeuripsTitles(buf) # {}
    THEN LET i == Least(NeuripsTitles(buf))
         IN meta.title =
              CleanTex(Slice(buf, NeuripsBrace(buf, i) + 1,
                         NeuripsTitleEnd(buf, i) - 1))
    ELSE IF PlainTitles(buf) # {}
    THEN meta.title = CleanArg(buf, Least(PlainTitles(buf)))
    ELSE meta.title = <<>>

\* a \title stands in front of an \icmltitle and the title is the latter's
C16_Witness ==
  /\ stage = "extract_metadata" /\ spc = "returned"
  /\ IcmlTitles(buf) # {} /\ PlainTitles(buf) # {}
  /\ Least(PlainTitles(buf)) < Least(IcmlTitles(buf))
  /\ meta.title = <<"A">>

\* the index in text of its k-th \includegraphics
Directives(text) == {i \in DOMAIN text : text[i] = "\\includegraphics"}

Rank(text, i) == Cardinality({j \in Directives(text) : j <= i})

\* the extensions of the priority list for which the file of fig exists
Candidates(tree) ==
  {k \in DOMAIN ImageExts : JoinPath(Root, "fig" \o ImageExts[k]) \in DOMAIN tree}

\* C17: a directive whose path fig has no extension comes out with the first
\* extension of the list .png, .jpg, .jpeg, .pdf, .svg for which the file
\* exists next to the main file, and as it was when there is no such file.
C17_FirstExistingExtension ==
  (stage = "fix_image_paths" /\ spc = "returned") =>
    \A i \in Directives(buf) :
      Lit(buf, i, Graphics(<<"fig">>)) > 0 =>
        \E j \in Directives(res) :
          /\ Rank(res, j) = Rank(buf, i)
          /\ IF Candidates(fs) = {}
             THEN Lit(res, j, Graphics(<<"fig">>)) > 0
             ELSE Lit(res, j,
                    Graphics(<<"fig", ImageExts[Least(Candidates(fs))]>>)) > 0

\* both fig.jpg and fig.pdf exist and the directive got .jpg
C17_Witness ==
  /\ stage = "fix_image_paths" /\ spc = "returned"
  /\ DOMAIN fs = {"fig.jpg", "fig.pdf"}
  /\ \E i \in Directives(buf) : Lit(buf, i, Graphics(<<"fig">>)) > 0
  /\ \E j \in Directives(res) : Lit(res, j, Graphics(<<"fig", ".jpg">>)) > 0

-----------------------------------------------------------------------------
(* preprocess(): preprocessor.py 20-39 *)

\* bound: items in the main file of a document
MaxDocItems == 1

\* the step of preprocess() that follows step at
Following ==
  [resolved |-> "strip_preamble",
   strip_preamble |-> "strip_conference_commands",
   strip_conference_commands |-> "convert_environments",
   convert_environments |-> "expand_simple_macros",
   expand_simple_macros |-> "fix_image_paths",
   fix_image_paths |-> "prepare_bibliography",
   prepare_bibliography |-> "final_cleanup",
   final_cleanup |-> "rebuild_document",
   rebuild_document |-> "done"]

\* a stage hands its text to the next line of preprocess()
Continue(text) ==
  /\ doc' = text
  /\ ipc' = Following[ipc]
  /\ UNCHANGED <<fs, stack, resolved, deepest, pass, stageVars, patchVars, citeVars>>

\* line 29
PreExtractMetadata ==
  /\ ipc = "resolved"
  /\ meta' = ExtractMetadata(resolved.text)
  /\ first' = first
  /\ Continue(resolved.text)

\* line 30
PreStripPreamble ==
  /\ ipc = "strip_preamble"
  /\ UNCHANGED <<meta, first>>
  /\ Continue(StripPreamble(doc))

\* line 31
PreStripConferenceCommands ==
  /\ ipc = "strip_conference_commands"
  /\ UNCHANGED <<meta, first>>
  /\ Continue(StripConferenceCommands(doc, meta))

\* line 32
PreConvertEnvironments ==
  /\ ipc = "convert_environments"
  /\ UNCHANGED <<meta, first>>
  /\ Continue(ConvertEnvironments(doc))

\* line 33: an exception of the stage leaves preprocess() as well
PreExpandSimpleMacros ==
  /\ ipc = "expand_simple_macros"
  /\ UNCHANGED <<meta, first>>
  /\ \E x \in {ExpandSimpleMacros(doc)} :
       IF x.raised
       THEN /\ ipc' = "error"
            /\ UNCHANGED <<fs, stack, resolved, deepest, pass, doc, stageVars, patchVars,
                           citeVars>>
       ELSE Continue(x.text)

\* line 34
PreFixImagePaths ==
  /\ ipc = "fix_image_paths"
  /\ UNCHANGED <<meta, first>>
  /\ Continue(FixImagePaths(doc, fs, Root))

\* line 35
PrePrepareBibliography ==
  /\ ipc = "prepare_bibliography"
  /\ UNCHANGED <<meta, first>>
  /\ Continue(PrepareBibliography(doc, fs, Root))

\* line 36
PreFinalCleanup ==
  /\ ipc = "final_cleanup"
  /\ UNCHANGED <<meta, first>>
  /\ Continue(FinalCleanup(doc))

\* lines 37-39
PreRebuildDocument ==
  /\ ipc = "rebuild_document"
  /\ \E text \in {RebuildDocument(doc, meta)} :
       /\ first' = IF pass = 1 THEN text ELSE first
       /\ Continue(text)
  /\ UNCHANGED meta

\* the pipeline is run again on the text it returned
Rerun ==
  /\ ipc = "done" /\ pass = 1
  /\ \E tree \in {[fs EXCEPT ![MainFile] = doc]} :
       /\ fs' = tree
       /\ stack' = StartResolve(tree)
  /\ ipc' = "resolve" /\ pass' = 2
  /\ UNCHANGED <<resolved, deepest, doc, meta, first, stageVars, patchVars, citeVars>>

DocItems ==
  {BeginDoc, EndDoc, <<"\\title", "{", "T", "}">>,
   <<"\\vspace", "{", "1cm", "}">>, Definition("\\R", <<"y">>),
   Definition("\\S", <<"\\mathbb", "{", "x", "}">>), <<"\\R">>,
   Graphics(<<"fig">>), Directive("\\input", "b"), <<"x">>}

DocTrees ==
  {[p \in {MainFile} \cup present |->
      CASE p = MainFile -> main
        [] p = "b.tex" -> sub
        [] OTHER -> <<>>] :
     main \in Texts(DocItems, MaxDocItems),
     sub \in {<<"x">>, Directive("\\input", "b")},
     present \in SUBSET {"b.tex", "fig.pdf"}}

Init ==
  /\ fs \in DocTrees
  /\ stack = StartResolve(fs)
  /\ ipc = "resolve"
  /\ resolved = [text |-> <<>>, org |-> <<>>]
  /\ deepest = 0
  /\ pass = 1 /\ doc = <<>> /\ meta = NoMeta /\ first = <<>>
  /\ StageIdle /\ CiteIdle /\ PatchIdle

Next ==
  \/ IncBail \/ IncCall \/ IncKeep \/ IncSecondPass \/ IncReturn
  \/ PreExtractMetadata \/ PreStripPreamble \/ PreStripConferenceCommands
  \/ PreConvertEnvironments \/ PreExpandSimpleMacros \/ PreFixImagePaths
  \/ PrePrepareBibliography \/ PreFinalCleanup \/ PreRebuildDocument
  \/ Rerun

Spec == Init /\ [][Next]_vars

\* C1: when preprocess() is run again on the text it returned, it returns
\* that text unchanged: nothing more is deleted and the text does not grow.
C1_SecondPassSame == (pass = 2 /\ ipc = "done") => doc = first

-----------------------------------------------------------------------------
(* _link_citations: postprocessor.py 221-317 *)

\* line 244: a fragment with more ids than this is the bibliography
Threshold == 5

\* bound: calls of _link_citations on the same directory
MaxRuns == 2

\* bound: items in the body fragment
MaxCiteItems == 4

\* bound: iterations of the scan loop of line 265 in one call
MaxIters == 5

\* line 264
Marker == "<span class=\"citation\" data-cites=\""

Keys == {"a", "b", "c", "d", "e", "f", "z"}

\* line 302
RefId(key) == "ref-" \o key

\* the attribute of a bibliography entry
IdTok(key) == "id=\"" \o RefId(key) \o "\""

IdToks == {IdTok(k) : k \in Keys}

\* line 243: re.findall(id="(ref-[^"]+)"), in order and with repetitions
Ids(text) ==
  LET toks == SelectSeq(text, LAMBDA t : t \in IdToks)
  IN [i \in DOMAIN toks |-> RefId(CHOOSE k \in Keys : IdTok(k) = toks[i])]

\* line 234: the names of text/*.xhtml, sorted
FragNames == <<"ch1.xhtml", "ch2.xhtml", "ch3.xhtml">>

\* line 306
LinkOpen(chapter, ref_id) == "<a href=\"" \o chapter \o "#" \o ref_id \o "\">"

LinkClose == "</a>"

LinkToks ==
  {LinkOpen(FragNames[f], RefId(k)) : f \in DOMAIN FragNames, k \in Keys}

\* the tokens that hold a double quote, a ">", "<span"
QuoteToks == {"\"", Marker} \cup IdToks \cup LinkToks

GtToks == {">", "<span>", "</span>", LinkClose} \cup LinkToks

OpenToks == {Marker, "<span>"}

\* line 258: 'data-cites=' in content
HasDataCites(text) == \E i \in DOMAIN text : text[i] = Marker

\* lines 239-247: the first fragment with more than Threshold ids (0 = None)
Designated(files) ==
  LET over == {f \in DOMAIN files : Len(Ids(files[f])) > Threshold}
  IN IF over = {} THEN 0 ELSE Least(over)

\* line 246
IdSet(text) == {Ids(text)[i] : i \in DOMAIN Ids(text)}

\* lines 282-296: the depth count from index scan on.  The result is the
\* index behind the </span> that brings the depth to 0; when the text ends
\* before that, span_end keeps the value it had (stale, 0 when not bound).
RECURSIVE CloseScan(_, _, _, _)
CloseScan(text, scan, depth, stale) ==
  IF depth <= 0 \/ scan > Len(text) THEN stale
  ELSE LET next_open == FindTok(text, scan, OpenToks)
           next_close == FindTok(text, scan, {"</span>"})
       IN IF next_close = 0 THEN stale
          ELSE IF next_open # 0 /\ next_open < next_close
            THEN CloseScan(text, next_open + 1, depth + 1, stale)
          ELSE CloseScan(text, next_close + 1, depth - 1,
                 IF depth = 1 THEN next_close + 1 ELSE stale)

\* line 301: cites_str.split()[0]; <<>> when the list is empty (IndexError)
FirstKey(cites_str) ==
  LET k == SkipWS(cites_str, 1)
  IN IF k > Len(cites_str) THEN <<>> ELSE <<cites_str[k]>>

\* line 304
MatchesAny(ref_id, bib_ids) == TRUE

Matches(ref_id, bib_ids) == ref_id \in bib_ids

NoBib == [chapter |-> 0, ids |-> {}]

\* lines 230-250: no fragment holds enough ids: the call returns at once
CiteNoBibliography ==
  /\ cpc = "idle" /\ runs < MaxRuns
  /\ Designated(frags) = 0
  /\ bib' = NoBib /\ prev' = frags /\ runs' = runs + 1 /\ iters' = 0
  /\ span_end' = 0
  /\ UNCHANGED <<frags, frags0, cpc, xf, content, pos, result, prepVars,
                 stageVars, patchVars>>

\* lines 230-256: the bibliography is found, the loop over the files begins
CiteStart ==
  /\ cpc = "idle" /\ runs < MaxRuns
  /\ \E d \in {Designated(frags)} :
       /\ d # 0
       /\ bib' = [chapter |-> d, ids |-> IdSet(frags[d])]
  /\ prev' = frags /\ iters' = 0 /\ span_end' = 0
  /\ cpc' = "files" /\ xf' = 1
  /\ UNCHANGED <<frags, frags0, runs, content, pos, result, prepVars,
                 stageVars, patchVars>>

\* lines 257-259: a file without a marker is passed over
CiteSkipFile ==
  /\ cpc = "files" /\ xf <= Len(frags)
  /\ ~HasDataCites(frags[xf])
  /\ xf' = xf + 1
  /\ UNCHANGED <<frags, frags0, prev, runs, cpc, bib, content, pos, result,
                 span_end, iters, prepVars, stageVars, patchVars>>

\* lines 257-264: a file with a marker is read
CiteOpenFile ==
  /\ cpc = "files" /\ xf <= Len(frags)
  /\ HasDataCites(frags[xf])
  /\ content' = frags[xf] /\ result' = <<>> /\ pos' = 1 /\ cpc' = "scan"
  /\ UNCHANGED <<frags, frags0, prev, runs, bib, xf, span_end, iters,
                 prepVars, stageVars, patchVars>>

\* lines 266, 271-311: one citation span.  In the texts of the model the
\* first quote behind a marker is the token that closes data-cites and the
\* first ">" behind it closes the tag.
CiteSpan ==
  /\ cpc = "scan" /\ iters < MaxIters
  /\ \E idx \in {FindTok(content, pos, {Marker})} :
       /\ idx # 0
       /\ \E q_end \in {FindTok(content, idx + 1, QuoteToks)} :
          \E gt \in {IF q_end = 0 THEN 0 ELSE FindTok(content, q_end, GtToks)} :
          \E end \in {IF gt = 0 THEN 0
                      ELSE CloseScan(content, gt + 1, 1, span_end)} :
          \E first_key \in {FirstKey(Slice(content, idx + 1, q_end - 1))} :
            IF end = 0 \/ first_key = <<>>
            THEN \* ValueError (276, 281), UnboundLocalError (298) or
                 \* IndexError (301): the file is not written
                 /\ cpc' = "raised"
                 /\ UNCHANGED <<pos, result, span_end, iters>>
            ELSE LET full_span == Slice(content, idx, end - 1)
                     ref_id == RefId(first_key[1])
                 IN /\ result' =
                         result \o Slice(content, pos, idx - 1)
                         \o (IF Matches(ref_id, bib.ids)
                             THEN <<LinkOpen(FragNames[bib.chapter], ref_id)>>
                                  \o full_span \o <<LinkClose>>
                             ELSE full_span)
                    /\ pos' = end /\ span_end' = end /\ iters' = iters + 1
                    /\ cpc' = cpc
  /\ UNCHANGED <<frags, frags0, prev, runs, bib, xf, content, prepVars,
                 stageVars, patchVars>>

\* lines 266-269, 313-314: no marker is left: the file is written
CiteWrite ==
  /\ cpc = "scan"
  /\ FindTok(content, pos, {Marker}) = 0
  /\ frags' = [frags EXCEPT ![xf] = result \o From(content, pos)]
  /\ xf' = xf + 1 /\ cpc' = "files"
  /\ UNCHANGED <<frags0, prev, runs, bib, content, pos, result, span_end,
                 iters, prepVars, stageVars, patchVars>>

\* lines 316-317: behind the last file the call returns
CiteReturn ==
  /\ cpc = "files" /\ xf > Len(frags)
  /\ runs' = runs + 1 /\ cpc' = "idle"
  /\ UNCHANGED <<frags, frags0, prev, bib, xf, content, pos, result,
                 span_end, iters, prepVars, stageVars, patchVars>>

OpenTag(cites) == <<Marker>> \o cites \o <<"\"", ">">>

BodyItems ==
  {OpenTag(<<"a", " ", "b">>), OpenTag(<<"z">>), <<"<span>">>, <<"</span>">>,
   <<"x">>}

Entries(keys) == [i \in DOMAIN keys |-> IdTok(keys[i])]

\* fragments around the body: without entries, with Threshold entries, with
\* one more, and with one entry repeated and a citation of its own
BibFrags ==
  {<<>>, Entries(<<"a", "b", "c", "d", "e">>),
   Entries(<<"a", "b", "c", "d", "e", "f">>),
   Entries(<<"z", "z", "z", "z", "z", "z">>) \o OpenTag(<<"z">>)
     \o <<"x", "</span>">>}

CiteDirs ==
  {<<before, body, after>> :
     before \in BibFrags, body \in Texts(BodyItems, MaxCiteItems),
     after \in BibFrags}

InitCite ==
  /\ frags \in CiteDirs
  /\ frags0 = frags /\ prev = frags
  /\ runs = 0 /\ cpc = "idle" /\ bib = NoBib /\ xf = 0 /\ content = <<>>
  /\ pos = 0 /\ result = <<>> /\ span_end = 0 /\ iters = 0
  /\ fs = <<>> /\ stack = <<>> /\ ipc = "idle"
  /\ resolved = [text |-> <<>>, org |-> <<>>] /\ deepest = 0
  /\ pass = 1 /\ doc = <<>> /\ meta = NoMeta /\ first = <<>>
  /\ StageIdle /\ PatchIdle

NextCite ==
  \/ CiteNoBibliography \/ CiteStart \/ CiteSkipFile \/ CiteOpenFile
  \/ CiteSpan \/ CiteWrite \/ CiteReturn

SpecCite == InitCite /\ [][NextCite]_vars

\* text without the tags of links
Unlink(text) == SelectSeq(text, LAMBDA t : t \notin LinkToks \cup {LinkClose})

\* the </span> at which the span opened by the marker at index p is closed:
\* the first one behind the tag at which as many spans are closed as opened
\* (0 when the span is not closed)
SpanClose(text, p) ==
  LET tag == FindTok(text, p, {">"})
      opened(q) == Cardinality({j \in tag + 1..q : text[j] \in OpenToks})
      closed(q) == Cardinality({j \in tag + 1..q : text[j] = "</span>"})
      closes == {q \in tag + 1..Len(text) :
                   text[q] = "</span>" /\ closed(q) = opened(q) + 1}
  IN IF tag = 0 \/ closes = {} THEN 0 ELSE Least(closes)

\* the first cite-key of the marker at index p
CitedFirst(text, p) == text[SkipWS(text, p + 1)]

\* C3: when the first call has returned, each fragment is the fragment as it
\* was but for the tags of links; each closed citation span whose first key
\* is an id of the bibliography stands, whole, in exactly one link to that id
\* in the bibliography fragment, and no other citation span stands in a link.
C3_WrapsNotRewrites ==
  (runs = 1 /\ cpc = "idle" /\ Designated(frags0) # 0) =>
    LET d == Designated(frags0)
    IN \A f \in DOMAIN frags :
         /\ Unlink(frags[f]) = frags0[f]
         /\ \A p \in DOMAIN frags[f] :
              (frags[f][p] = Marker /\ SpanClose(frags[f], p) > 0) =>
                LET ref_id == RefId(CitedFirst(frags[f], p))
                IN IF ref_id \in IdSet(frags0[d])
                   THEN /\ At(frags[f], p - 1) = LinkOpen(FragNames[d], ref_id)
                        /\ At(frags[f], SpanClose(frags[f], p) + 1) = LinkClose
                        /\ At(frags[f], p - 2) \notin LinkToks
                   ELSE At(frags[f], p - 1) \notin LinkToks

\* the links of a text point into the fragment d at ids it holds exactly once
\* as a value of its id set
LinksInto(text, d) ==
  \A p \in DOMAIN text :
    text[p] \in LinkToks =>
      /\ d # 0
      /\ \E k \in Keys :
           /\ text[p] = LinkOpen(FragNames[d], RefId(k))
           /\ Cardinality({id \in IdSet(frags0[d]) : id = RefId(k)}) = 1

C5_SecondCallChangesNothing == (runs = 2 /\ cpc = "idle") => frags = prev

\* C18: the scan over a fragment never ends in an error, and each pass of the
\* loop of line 265 that handles a citation span leaves the cursor behind the
\* opening token it handled.
C18_CursorAdvances ==
  [][/\ cpc' # "raised"
     /\ (cpc = "scan" /\ iters' # iters) =>
          pos' > FindTok(content, pos, {Marker})]_vars

-----------------------------------------------------------------------------
(* postprocess_epub: postprocessor.py 119-165 *)

\* bound: runs of postprocess_epub() on the same archive
MaxPatchRuns == 2

\* lines 11-19
FONT_FILES ==
  <<"lmroman10-regular.otf", "lmroman10-bold.otf", "lmroman10-italic.otf",
    "lmroman10-bolditalic.otf", "lmsans10-regular.otf", "lmsans10-bold.otf",
    "lmmono10-regular.otf">>

FontNames == {FONT_FILES[i] : i \in DOMAIN FONT_FILES}

Stems ==
  {"lmroman10-regular", "lmroman10-bold", "lmroman10-italic",
   "lmroman10-bolditalic", "lmsans10-regular", "lmsans10-bold",
   "lmmono10-regular"}

\* line 213: font_name.replace(".", "-").replace("-otf", "")
ItemId(font_name) == CHOOSE s \in Stems : s \o ".otf" = font_name

\* line 214
FontItem(font_name) ==
  "    <item id=\"" \o ItemId(font_name) \o "\" href=\"fonts/" \o font_name
  \o "\" media-type=\"font/otf\"/>\n"

\* lines 211-214
FontItems == [i \in DOMAIN FONT_FILES |-> FontItem(FONT_FILES[i])]

\* a comment of a manifest that names the font of line 207
MarkerComment == "<!-- lmroman10-regular.otf -->"

\* line 207: the pieces of a manifest that hold "lmroman10-regular.otf"
MarkerToks == {FontItem("lmroman10-regular.otf"), MarkerComment}

ManifestClose == "</manifest>"

\* lines 204-217: the text written back to the manifest file
UpdateManifest(text) ==
  IF \E i \in DOMAIN text : text[i] \in MarkerToks THEN text
  ELSE LET closes(t, a) == IF t[a] = ManifestClose THEN a + 1 ELSE a
           patched(t, a, e) == FontItems \o <<"  ", ManifestClose>>
       IN SubAll(text, closes, patched)

\* line 185
FullCss == <<"FONT_FACE_CSS", "BODY_CSS">>

\* the names of the model in the order of Python's string comparison
NameOrder ==
  <<"EPUB", "book", "ch1.xhtml", "ch2.xhtml", "ch3.xhtml", "content.opf",
    "css", "fonts", "lmmono10-regular.otf", "lmroman10-bold.otf",
    "lmroman10-bolditalic.otf", "lmroman10-italic.otf",
    "lmroman10-regular.otf", "lmsans10-bold.otf", "lmsans10-regular.otf",
    "main.css", "mimetype", "style.css", "text">>

NameRank(name) == CHOOSE i \in DOMAIN NameOrder : NameOrder[i] = name

\* line 328: the order of Path objects: part by part, a prefix first
PathLess(p, q) ==
  \E k \in 1..Len(q) :
    /\ k - 1 <= Len(p)
    /\ \A j \in 1..k - 1 : p[j] = q[j]
    /\ \/ Len(p) = k - 1
       \/ NameRank(p[k]) < NameRank(q[k])

\* line 328: sorted(...)
RECURSIVE SortPaths(_)
SortPaths(S) ==
  IF S = {} THEN <<>>
  ELSE LET least == CHOOSE p \in S : \A q \in S \ {p} : PathLess(p, q)
       IN <<least>> \o SortPaths(S \ {least})

Folder(p) == SubSeq(p, 1, Len(p) - 1)

FileName(p) == p[Len(p)]

\* the directories of a tree of files
Folders(files) ==
  UNION {{SubSeq(p, 1, k) : k \in 0..Len(p) - 1} : p \in DOMAIN files}

\* path p lies below the directory d, at any depth
Below(d, p) == Len(p) > Len(d) /\ SubSeq(p, 1, Len(d)) = d

\* rglob("*.opf"), rglob("*.css"), glob("*.xhtml")
OpfNames == {"content.opf"}

CssNames == {"main.css", "style.css"}

XhtmlNames == {FragNames[i] : i \in DOMAIN FragNames}

RGlob(files, d, names) ==
  {p \in DOMAIN files : Below(d, p) /\ FileName(p) \in names}

\* line 170
ContentCandidates == <<"EPUB", "OEBPS", "OPS", "content">>

\* lines 168-177: the directories _find_content_dir may return; the order of
\* rglob is the order of the file system, so each manifest file found may be
\* the first.  No directory: FileNotFoundError.
ContentDirNoFallback(files) ==
  LET found == {i \in DOMAIN ContentCandidates :
                  <<ContentCandidates[i]>> \in Folders(files)}
  IN IF found # {} THEN {<<ContentCandidates[Least(found)]>>} ELSE {}

ContentDir(files) ==
  LET found == {i \in DOMAIN ContentCandidates :
                  <<ContentCandidates[i]>> \in Folders(files)}
  IN IF found # {} THEN {<<ContentCandidates[Least(found)]>>}
     ELSE {Folder(p) : p \in RGlob(files, <<>>, OpfNames)}

\* the content of a font file
FontData(font_name) == <<font_name>>

\* lines 142-147: the workspace with the fonts found in fonts_dir copied
AddFonts(files, d, present) ==
  LET new == {d \o <<"fonts", f>> : f \in FontNames \cap present}
  IN [p \in DOMAIN files \cup new |->
        IF p \in new THEN FontData(FileName(p)) ELSE files[p]]

\* lines 326, 331
CompressionAllDeflated(path) == "ZIP_DEFLATED"

Compression(path) ==
  IF path = <<"mimetype">> THEN "ZIP_STORED" ELSE "ZIP_DEFLATED"

Entry(files, path) ==
  [name |-> path, compress_type |-> Compression(path), data |-> files[path]]

\* lines 323-331: the entries written to the archive, in order
Repackage(files) ==
  LET rest == SortPaths({p \in DOMAIN files : FileName(p) # "mimetype"})
  IN (IF <<"mimetype">> \in DOMAIN files
      THEN <<Entry(files, <<"mimetype">>)>> ELSE <<>>)
     \o [i \in DOMAIN rest |-> Entry(files, rest[i])]

\* lines 135-136: extractall
Extract(entries) ==
  LET names == {entries[i].name : i \in DOMAIN entries}
  IN [p \in names |->
        entries[CHOOSE i \in DOMAIN entries : entries[i].name = p].data]

Zip(entries) == [kind |-> "zip", entries |-> entries]

BadArchive == [kind |-> "bad", entries |-> <<>>]

\* lines 133, 161: an exception in the try block passes through the finally
\* clause
OnErrorNoFinally == "failed"

OnError == "cleanup"

\* lines 128-131
PatchStart ==
  /\ ppc = "start"
  /\ IF epub.kind = "none"
     THEN /\ ppc' = "failed" /\ err' = "FileNotFoundError: EPUB not found"
          /\ UNCHANGED tmp_dir
     ELSE /\ ppc' = "extract" /\ tmp_dir' = "present" /\ UNCHANGED err
  /\ UNCHANGED <<epub, fonts_dir, unpacked, extracted, content_dir, copied,
                 nrun, prepVars, stageVars, citeVars>>

\* lines 135-136
PatchExtract ==
  /\ ppc = "extract"
  /\ IF epub.kind = "bad"
     THEN /\ ppc' = OnError /\ err' = "BadZipFile"
          /\ UNCHANGED <<unpacked, extracted>>
     ELSE /\ unpacked' = Extract(epub.entries)
          /\ extracted' = unpacked'
          /\ ppc' = "find" /\ UNCHANGED err
  /\ UNCHANGED <<epub, fonts_dir, tmp_dir, content_dir, copied, nrun,
                 prepVars, stageVars, citeVars>>

\* line 139
PatchFindContentDir ==
  /\ ppc = "find"
  /\ IF ContentDir(unpacked) = {}
     THEN /\ ppc' = OnError
          /\ err' = "FileNotFoundError: Cannot find EPUB content directory"
          /\ UNCHANGED content_dir
     ELSE /\ \E d \in ContentDir(unpacked) : content_dir' = d
          /\ ppc' = "fonts" /\ UNCHANGED err
  /\ UNCHANGED <<epub, fonts_dir, tmp_dir, unpacked, extracted, copied, nrun,
                 prepVars, stageVars, citeVars>>

\* lines 142-147
PatchFonts ==
  /\ ppc = "fonts"
  /\ unpacked' = AddFonts(unpacked, content_dir, fonts_dir)
  /\ copied' = FontNames \cap fonts_dir
  /\ ppc' = "css"
  /\ UNCHANGED <<epub, fonts_dir, tmp_dir, extracted, content_dir, err, nrun,
                 prepVars, stageVars, citeVars>>

\* lines 150, 180-194: the first stylesheet rglob yields is overwritten; with
\* none, css/style.css is created
PatchInjectCss ==
  /\ ppc = "css"
  /\ LET css_files == RGlob(unpacked, content_dir, CssNames)
         made == content_dir \o <<"css", "style.css">>
     IN IF css_files # {}
        THEN \E p \in css_files : unpacked' = [unpacked EXCEPT ![p] = FullCss]
        ELSE unpacked' = [p \in DOMAIN unpacked \cup {made} |->
                            IF p = made THEN FullCss ELSE unpacked[p]]
  /\ ppc' = "manifest"
  /\ UNCHANGED <<epub, fonts_dir, tmp_dir, extracted, content_dir, copied,
                 err, nrun, prepVars, stageVars, citeVars>>

\* lines 153, 197-218
PatchUpdateManifest ==
  /\ ppc = "manifest"
  /\ LET opf_files == RGlob(unpacked, content_dir, OpfNames)
     IN IF opf_files = {} THEN UNCHANGED unpacked
        ELSE \E p \in opf_files :
               unpacked' = [unpacked EXCEPT ![p] = UpdateManifest(unpacked[p])]
  /\ ppc' = "cite"
  /\ UNCHANGED <<epub, fonts_dir, tmp_dir, extracted, content_dir, copied,
                 err, nrun, prepVars, stageVars, citeVars>>

\* line 230
TextDir(d) == d \o <<"text">>

\* line 234: sorted(text_dir.glob("*.xhtml"))
XhtmlFiles(files, d) ==
  SortPaths({p \in DOMAIN files :
               Folder(p) = TextDir(d) /\ FileName(p) \in XhtmlNames})

\* lines 156, 230-236: _link_citations is called; without a text directory
\* or without fragments in it, it returns at once
PatchLinkCitations ==
  /\ ppc = "cite"
  /\ LET xhtml_files == XhtmlFiles(unpacked, content_dir)
     IN IF xhtml_files = <<>>
        THEN /\ ppc' = "repackage"
             /\ UNCHANGED citeVars
        ELSE /\ ppc' = "citing"
             /\ frags' = [i \in DOMAIN xhtml_files |-> unpacked[xhtml_files[i]]]
             /\ frags0' = frags' /\ prev' = frags'
             /\ runs' = 0 /\ cpc' = "idle" /\ bib' = NoBib /\ xf' = 0
             /\ content' = <<>> /\ pos' = 0 /\ result' = <<>>
             /\ span_end' = 0 /\ iters' = 0
  /\ UNCHANGED <<epub, fonts_dir, tmp_dir, unpacked, extracted, content_dir,
                 copied, err, nrun, prepVars, stageVars>>

\* the workspace with the fragments as _link_citations wrote them
WriteFrags(files, d, texts) ==
  LET xhtml_files == XhtmlFiles(files, d)
  IN [p \in DOMAIN files |->
        IF \E i \in DOMAIN xhtml_files : xhtml_files[i] = p
        THEN texts[CHOOSE i \in DOMAIN xhtml_files : xhtml_files[i] = p]
        ELSE files[p]]

\* lines 156, 316-317: _link_citations has returned
PatchCitationsLinked ==
  /\ ppc = "citing" /\ cpc = "idle" /\ runs = 1
  /\ unpacked' = WriteFrags(unpacked, content_dir, frags)
  /\ ppc' = "repackage"
  /\ UNCHANGED <<epub, fonts_dir, tmp_dir, extracted, content_dir, copied,
                 err, nrun, prepVars, stageVars, citeVars>>

\* line 156: _link_citations has raised
PatchCitationsRaised ==
  /\ ppc = "citing" /\ cpc = "raised"
  /\ unpacked' = WriteFrags(unpacked, content_dir, frags)
  /\ ppc' = OnError /\ err' = "error in _link_citations"
  /\ UNCHANGED <<epub, fonts_dir, tmp_dir, extracted, content_dir, copied,
                 nrun, prepVars, stageVars, citeVars>>

\* lines 159, 320-331: the archive is written in place; when the file at
\* epub_path cannot be opened for writing, ZipFile raises and the file stays
PatchRepackage ==
  /\ ppc = "repackage"
  /\ \E writable \in BOOLEAN :
       IF writable
       THEN /\ epub' = Zip(Repackage(unpacked))
            /\ ppc' = "cleanup" /\ UNCHANGED err
       ELSE /\ ppc' = OnError /\ err' = "PermissionError"
            /\ UNCHANGED epub
  /\ UNCHANGED <<fonts_dir, tmp_dir, unpacked, extracted, content_dir, copied,
                 nrun, prepVars, stageVars, citeVars>>

\* lines 161-165: the finally clause, then the report or the exception
PatchFinally ==
  /\ ppc = "cleanup"
  /\ tmp_dir' = "deleted"
  /\ ppc' = IF err = "" THEN "returned" ELSE "failed"
  /\ UNCHANGED <<epub, fonts_dir, unpacked, extracted, content_dir, copied,
                 err, nrun, prepVars, stageVars, citeVars>>

\* postprocess_epub() is called again on the archive it has written
PatchAgain ==
  /\ ppc = "returned" /\ nrun < MaxPatchRuns
  /\ ppc' = "start" /\ nrun' = nrun + 1
  /\ tmp_dir' = "none" /\ unpacked' = NoFiles /\ extracted' = NoFiles
  /\ content_dir' = <<>> /\ copied' = {}
  /\ UNCHANGED <<epub, fonts_dir, err, prepVars, stageVars, citeVars>>

File(path, text) == [p \in {path} |-> text]

OtherItem == "<item id=\"nav\" href=\"nav.xhtml\"/>"

\* manifests: plain, with an entry for one of the fonts, with the marker in
\* a comment, without the closing tag, with the closing tag twice
Manifests ==
  {<<"<manifest>", OtherItem, ManifestClose>>,
   <<"<manifest>", FontItem("lmroman10-bold.otf"), ManifestClose>>,
   <<MarkerComment, "<manifest>", OtherItem, ManifestClose>>,
   <<"<manifest>", OtherItem>>,
   <<"<!--", ManifestClose, "-->", "<manifest>", OtherItem, ManifestClose>>}

Citation(key, closed) ==
  OpenTag(<<key>>) \o <<"x">> \o (IF closed THEN <<"</span>">> ELSE <<>>)

\* text directories: none, one fragment and no bibliography, a citation and
\* a bibliography, a citation span that is not closed and a bibliography
TextParts(d) ==
  {NoFiles,
   File(TextDir(d) \o <<"ch1.xhtml">>, Citation("a", TRUE)),
   File(TextDir(d) \o <<"ch1.xhtml">>, Citation("a", TRUE))
     @@ File(TextDir(d) \o <<"ch2.xhtml">>,
             Entries(<<"a", "b", "c", "d", "e", "f">>)),
   File(TextDir(d) \o <<"ch1.xhtml">>, Citation("a", FALSE))
     @@ File(TextDir(d) \o <<"ch2.xhtml">>,
             Entries(<<"a", "b", "c", "d", "e", "f">>))}

\* the files of an archive below the directory d
Books(d) ==
  {mimetype @@ opf @@ css @@ inner @@ text :
     mimetype \in {NoFiles, File(<<"mimetype">>, <<"application/epub+zip">>)},
     opf \in {NoFiles} \cup {File(d \o <<"content.opf">>, m) : m \in Manifests},
     css \in {NoFiles, File(d \o <<"css", "main.css">>, <<"old">>),
              File(d \o <<"css", "main.css">>, <<"old">>)
                @@ File(d \o <<"style.css">>, <<"old">>)},
     inner \in {NoFiles, File(d \o <<"mimetype">>, <<"inner">>)},
     text \in TextParts(d)}

\* an archive that holds the files, each as one entry
Packed(files) ==
  LET paths == SortPaths(DOMAIN files)
  IN [i \in DOMAIN paths |-> Entry(files, paths[i])]

Archives ==
  {Zip(Packed(files)) : files \in Books(<<"EPUB">>) \cup Books(<<"book">>)}

FontDirs ==
  {{}, {"lmroman10-regular.otf"}, {"lmroman10-bold.otf"}, FontNames}

InitPatch ==
  /\ epub \in {NoArchive, BadArchive} \cup Archives
  /\ fonts_dir \in FontDirs
  /\ ppc = "start" /\ tmp_dir = "none" /\ unpacked = NoFiles
  /\ extracted = NoFiles /\ content_dir = <<>> /\ copied = {} /\ err = ""
  /\ nrun = 1
  /\ fs = <<>> /\ stack = <<>> /\ ipc = "idle"
  /\ resolved = [text |-> <<>>, org |-> <<>>] /\ deepest = 0
  /\ pass = 1 /\ doc = <<>> /\ meta = NoMeta /\ first = <<>>
  /\ StageIdle /\ CiteIdle

NextPatch ==
  \/ PatchStart \/ PatchExtract \/ PatchFindContentDir \/ PatchFonts
  \/ PatchInjectCss \/ PatchUpdateManifest \/ PatchLinkCitations
  \/ (ppc = "citing" /\ runs = 0 /\ CiteNoBibliography)
  \/ (ppc = "citing" /\ runs = 0 /\ CiteStart)
  \/ (ppc = "citing" /\ CiteSkipFile)
  \/ (ppc = "citing" /\ CiteOpenFile)
  \/ (ppc = "citing" /\ CiteSpan)
  \/ (ppc = "citing" /\ CiteWrite)
  \/ (ppc = "citing" /\ CiteReturn)
  \/ PatchCitationsLinked \/ PatchCitationsRaised
  \/ PatchRepackage \/ PatchFinally \/ PatchAgain

SpecPatch == InitPatch /\ [][NextPatch]_vars

\* the manifest files the patch of this run reads
Opfs == RGlob(unpacked, content_dir, OpfNames)

\* the manifest patch of this run is behind
Patched ==
  /\ tmp_dir = "present"
  /\ ppc \in {"cite", "citing", "repackage", "cleanup"}

\* the entries of a manifest for a font
FontEntries(text, font_name) == Count(text, {FontItem(font_name)})

\* C11: behind the manifest patch of a second run on the archive, the
\* manifest holds at most one entry for each font, and the patch of this run
\* has left the manifest as it found it.
C11_NoDuplicateFontEntries ==
  (nrun >= 2 /\ Patched) =>
    \A p \in Opfs :
      /\ \A f \in FontNames : FontEntries(unpacked[p], f) <= 1
      /\ unpacked[p] = extracted[p]

\* the fonts for which the manifest patch of this run added an entry
AddedFonts(p) ==
  {f \in FontNames : FontEntries(unpacked[p], f) > FontEntries(extracted[p], f)}

\* C12: behind the manifest patch, the fonts for which the patch added an
\* entry to the manifest are the fonts that were copied into fonts/.
C12_EntriesAreCopiedFonts ==
  (nrun = 1 /\ Patched) => \A p \in Opfs : AddedFonts(p) = copied

\* the archive has just been written from the workspace
Written == ppc = "cleanup" /\ err = ""

\* C13: when the workspace has a mimetype file, it is the first entry of the
\* archive and is stored; every other entry stands behind it, is deflated,
\* and stands before every entry whose path is greater.
C13_MimetypeFirstStored ==
  Written =>
    LET entries == epub.entries
    IN /\ <<"mimetype">> \in DOMAIN unpacked =>
            /\ entries[1].name = <<"mimetype">>
            /\ entries[1].compress_type = "ZIP_STORED"
       /\ \A i \in DOMAIN entries :
            entries[i].name # <<"mimetype">> =>
              /\ entries[i].compress_type = "ZIP_DEFLATED"
              /\ <<"mimetype">> \in DOMAIN unpacked => i > 1
              /\ \A j \in DOMAIN entries :
                   i < j => PathLess(entries[i].name, entries[j].name)

\* an archive with a mimetype file and files in two directories is written
C13_Witness ==
  /\ Written
  /\ <<"mimetype">> \in DOMAIN unpacked
  /\ \E i, j \in DOMAIN epub.entries :
       /\ 1 < i /\ i < j
       /\ Len(epub.entries[i].name) = 3 /\ Len(epub.entries[j].name) = 2

\* no directory of the four names and no manifest file at any depth
NoContentRoot(files) ==
  /\ \A i \in DOMAIN ContentCandidates :
       \A p \in DOMAIN files : p[1] # ContentCandidates[i] \/ Len(p) = 1
  /\ \A p \in DOMAIN files : FileName(p) \notin OpfNames

\* C14: the search for the content root fails exactly when there is none;
\* the font step, the stylesheet step and the manifest step each pass on to
\* the next step, the manifest step leaving the workspace alone when no
\* manifest file is found; the citation step passes on to repackaging and
\* leaves the workspace alone when the text directory or the bibliography
\* fragment is missing.
C14_OnlyContentRootAborts ==
  [][/\ ppc = "find" =>
          /\ (ppc' = "cleanup" /\ err' # "") <=> NoContentRoot(unpacked)
          /\ ~NoContentRoot(unpacked) => ppc' = "fonts"
     /\ ppc = "fonts" => ppc' = "css" /\ err' = ""
     /\ ppc = "css" => ppc' = "manifest" /\ err' = ""
     /\ ppc = "manifest" =>
          /\ ppc' = "cite" /\ err' = ""
          /\ Opfs = {} => unpacked' = unpacked
     /\ (ppc = "cite" /\ XhtmlFiles(unpacked, content_dir) = <<>>) =>
          ppc' = "repackage" /\ unpacked' = unpacked /\ err' = ""
     /\ (ppc = "citing" /\ runs = 0 /\ Designated(frags) = 0) =>
          runs' = 1 /\ frags' = frags /\ cpc' = "idle"
     /\ (ppc = "citing" /\ cpc = "idle" /\ runs = 1 /\ bib = NoBib) =>
          ppc' = "repackage" /\ unpacked' = unpacked /\ err' = ""
    ]_vars

\* a run without fonts, stylesheet, manifest and text directory has written
\* the archive
C14_Witness ==
  /\ ppc = "returned" /\ nrun = 1 /\ copied = {}
  /\ \A i \in DOMAIN epub.entries :
       /\ FileName(epub.entries[i].name) \notin OpfNames \cup XhtmlNames
       /\ FileName(epub.entries[i].name) \in CssNames =>
            epub.entries[i].name = <<"EPUB", "css", "style.css">>

\* C15: when postprocess_epub() has returned or has raised, no workspace is
\* left.
C15_WorkspaceDeleted ==
  ppc \in {"returned", "failed"} => tmp_dir # "present"

\* a run that made a workspace has failed, and the workspace is deleted
C15_Witness ==
  /\ ppc = "failed" /\ tmp_dir = "deleted"
  /\ err = "error in _link_citations"

\* C19: the archive written holds one entry for each file of the workspace,
\* under its path, and no other entry.
C19_EveryFileOnce ==
  Written =>
    /\ {epub.entries[i].name : i \in DOMAIN epub.entries} = DOMAIN unpacked
    /\ Len(epub.entries) = Cardinality(DOMAIN unpacked)
=============================================================================
